---- MODULE Spec2Model ----
(***************************************************************************)
(* A model of the IDM transport (src/idm-protocol), the driver-side handle *)
(* table (src/gpu-proxy/handle_table.c) and the GPU proxy dispatcher       *)
(* (src/gpu-proxy/handlers.c, main.c).                                     *)
(*                                                                         *)
(* The specifications share the variables:                                 *)
(*   SpecRing, SpecOrder, SpecWrap, SpecWake, SpecThreads                  *)
(*              one direction of a connection, idm_send and idm_recv;      *)
(*   SpecConn   the life cycle of the connections;                         *)
(*   SpecBuild  idm_build_message called by two threads;                   *)
(*   SpecTable  the handle table driven by direct calls;                   *)
(*   Spec, SpecLife                                                        *)
(*              the driver zone's dispatcher loop fed by the peer zone     *)
(*              through the shared rings, and its shutdown;                *)
(*   SpecCall, SpecSeq, SpecPipe                                           *)
(*              the user zone's library and clients against the daemon.    *)
(***************************************************************************)
EXTENDS Integers, Sequences, FiniteSets, TLC

(***************************************************************************)
(* Bounds of the model.                                                    *)
(***************************************************************************)
\* idm_send calls the sender makes in SpecRing
MaxSends == 34
\* allocation failures (malloc returning NULL) injected in SpecRing
MaxFaults == 1
\* failed allocations and failed backend calls injected over a run of Spec.
\* The claims on the dispatcher range over every failure of the iteration
\* they describe; this bounds only the failures that lie in the past of a
\* reachable state
MaxDriverFaults == 0
\* messages the peer zone places in the driver's receive ring in Spec
MaxReqs == 2
\* direct calls made on the handle table in SpecTable
MaxTableOps == 3
\* idm_build_message calls made by the threads in SpecBuild
MaxBuilds == 4
\* calls of send_and_wait made in SpecCall
MaxCalls == 1
\* messages the driver zone sends the user zone in SpecCall
MaxResps == 2
\* requests the user zone sends in SpecLife
MaxLifeReqs == 2
\* SpecWake: calls of idm_send, and wakes a semaphore holds when the
\* processes start
MaxWakeSends == 3
MaxStaleWakes == 1
\* calls of the transport's public functions made in SpecConn
MaxApiCalls == 5
\* driver calls the application makes one after the other in SpecSeq
MaxSeqCalls == 2
\* requests the client places in the ring in SpecPipe
MaxPipeReqs == 34

(***************************************************************************)
(* Unsigned machine integers.  A w-bit unsigned integer is a tuple of      *)
(* 16-bit limbs, least significant first: uint32_t has 2 limbs, uint64_t   *)
(* has 4.  Arithmetic is modulo 2^w, as in C.                              *)
(***************************************************************************)
LimbBase == 2^16

\* the unsigned integer of k limbs whose value is n (n < 2^31)
ToLimbs(n, k) ==
    [i \in 1..k |-> IF i = 1 THEN n % LimbBase
                    ELSE IF i = 2 THEN n \div LimbBase
                    ELSE 0]

u32(n) == ToLimbs(n, 2)
u64(n) == ToLimbs(n, 4)

\* 2^64 - n, for 0 < n < 2^16
u64_minus(n) == <<LimbBase - n, LimbBase - 1, LimbBase - 1, LimbBase - 1>>
\* 2^32 - n, for 0 < n < 2^16
u32_minus(n) == <<LimbBase - n, LimbBase - 1>>

RECURSIVE CarryInto(_, _, _)
CarryInto(a, b, i) ==
    IF i = 1 THEN 0
    ELSE (a[i-1] + b[i-1] + CarryInto(a, b, i-1)) \div LimbBase

\* a + b modulo 2^w
AddW(a, b) ==
    [i \in 1..Len(a) |-> (a[i] + b[i] + CarryInto(a, b, i)) % LimbBase]

\* the mathematical sum a + b does not fit in w bits
AddCarries(a, b) == CarryInto(a, b, Len(a) + 1) = 1

RECURSIVE BorrowInto(_, _, _)
BorrowInto(a, b, i) ==
    IF i = 1 THEN 0
    ELSE IF a[i-1] - b[i-1] - BorrowInto(a, b, i-1) < 0 THEN 1 ELSE 0

\* a - b modulo 2^w
SubW(a, b) ==
    [i \in 1..Len(a) |->
        (a[i] - b[i] - BorrowInto(a, b, i) + LimbBase) % LimbBase]

RECURSIVE LtFrom(_, _, _)
LtFrom(a, b, i) ==
    IF i = 0 THEN FALSE
    ELSE IF a[i] # b[i] THEN a[i] < b[i]
    ELSE LtFrom(a, b, i-1)

LtW(a, b) == LtFrom(a, b, Len(a))
GtW(a, b) == LtW(b, a)
GeW(a, b) == ~LtW(a, b)

IncW(a) == AddW(a, ToLimbs(1, Len(a)))

\* a mod n for n a power of two not above 2^16
ModSmall(a, n) == a[1] % n

\* the natural number a, when it is below 2^16
IsSmall(a) == \A i \in 2..Len(a) : a[i] = 0
SmallVal(a) == a[1]

\* the value of a, for values that fit a model integer
RECURSIVE ValFrom(_, _)
ValFrom(a, i) ==
    IF i > Len(a) THEN 0 ELSE a[i] + LimbBase * ValFrom(a, i + 1)
ValW(a) == ValFrom(a, 1)

\* the mathematical sum a + b exceeds c
TrueSumExceeds(a, b, c) == AddCarries(a, b) \/ GtW(AddW(a, b), c)

(***************************************************************************)
(* Wire format (idm.h).                                                    *)
(***************************************************************************)
IDM_MAGIC == 1229212928
IDM_VERSION_MAJOR == 1
IDM_VERSION_MINOR == 0
IDM_VERSION == IDM_VERSION_MAJOR * 256 + IDM_VERSION_MINOR
IDM_MAX_PAYLOAD_SIZE == 4 * 1024 * 1024
IDM_RING_SIZE == 32

IDM_GPU_ALLOC == 1
IDM_GPU_FREE == 2
IDM_GPU_COPY_H2D == 16
IDM_GPU_COPY_D2H == 17
IDM_GPU_COPY_D2D == 18
IDM_GPU_MEMSET == 19
IDM_GPU_LAUNCH_KERNEL == 32
IDM_GPU_SYNC == 33
IDM_GPU_GET_INFO == 48
IDM_GPU_GET_PROPS == 49
IDM_RESPONSE_OK == 240
IDM_RESPONSE_ERROR == 241

IDM_ERROR_NONE == 0
IDM_ERROR_INVALID_MESSAGE == 1
IDM_ERROR_INVALID_HANDLE == 2
IDM_ERROR_PERMISSION_DENIED == 3
IDM_ERROR_OUT_OF_MEMORY == 4
IDM_ERROR_INVALID_SIZE == 5
IDM_ERROR_TIMEOUT == 6
IDM_ERROR_CONNECTION_LOST == 7
IDM_ERROR_CUDA_ERROR == 8
IDM_ERROR_UNKNOWN == 99

\* sizeof of the packed structures
SizeofHeader == 32
SizeofAlloc == 16
SizeofFree == 8
SizeofCopyH2D == 24
SizeofCopyD2H == 24
SizeofSync == 8
SizeofResponseOk == 24
SizeofResponseError == 272
\* sizeof(struct idm_ring_entry): the message padded to one page
SizeofRingEntry == 4096

DRIVER_ZONE_ID == 1
USER_ZONE_ID == 2
\* a zone id that is not a party of the connection
OTHER_ZONE_ID == USER_ZONE_ID + 1

CUDA_SUCCESS == 0
\* the CUresult a failing backend call returns (any nonzero value)
CUDA_FAILURE == 1

\* an absent payload (payload_len = 0 or a zeroed slot)
NoPayload == [none |-> TRUE]

\* a struct idm_message: the header fields and the payload that follows
Message(magic, version, type, src, dst, seq, len, payload) ==
    [magic |-> magic, version |-> version, msg_type |-> type,
     src_zone |-> src, dst_zone |-> dst, seq_num |-> seq,
     payload_len |-> len, reserved |-> 0, payload |-> payload]

\* the content of a slot after memset(ring, 0, ring_size)
ZeroMsg == Message(0, 0, 0, 0, 0, 0, 0, NoPayload)

\* the absence of a message (a NULL struct idm_message pointer)
NullMsg == [null |-> TRUE]

idm_message_size(msg) == SizeofHeader + msg.payload_len

idm_message_valid_bad_magic(msg) ==
    /\ msg.version = IDM_VERSION
    /\ msg.payload_len <= IDM_MAX_PAYLOAD_SIZE

idm_message_valid(msg) ==
    /\ msg.magic = IDM_MAGIC
    /\ msg.version = IDM_VERSION
    /\ msg.payload_len <= IDM_MAX_PAYLOAD_SIZE

(***************************************************************************)
(* State.                                                                  *)
(***************************************************************************)
VARIABLES
    \* transport.c: shared memory and per-process connection
    shm,          \* shm[z]: the struct idm_ring in the region keyed 0x1000+z
    sem,          \* sem[z]: value of the named semaphore /idm_sem_<z>
    conn,         \* conn[z]: global_conn of the process of zone z
    \* the thread calling idm_send in SpecRing
    spc, sloc, sret,
    \* the thread calling idm_recv in SpecRing
    rpc, rloc, rret, msg_out,
    \* history of one direction: messages published / delivered, in order
    sentLog, recvLog,
    nSendCalls, nFaults,
    \* handle_table.c
    hash_table, next_handle, total_handles, total_memory,
    \* direct calls on the handle table (SpecTable)
    tcall, issued, nTableOps,
    \* the handles handle_table_insert has returned since the process
    \* started, in the order of the calls
    returned,
    \* the backing GPU driver: live device allocations, ptr -> size
    gpu,
    \* main.c: the dispatcher loop
    running, requests_handled,
    \* what the last loop iteration did: message received, backend calls
    \* made, responses handed to idm_send
    disp,
    \* the peer zone: messages it has placed in the driver's receive ring,
    \* and the results of its last idm_send and idm_recv
    nReqs, client,
    \* the threads of one process calling idm_build_message (SpecBuild) or
    \* idm_send (SpecThreads): position and locals of each, the owner of
    \* conn->seq_lock (0: free), the messages returned (the calls
    \* returned) so far, and the calls made
    bpc, bloc, seq_lock, built, nBuilds,
    \* libvgpu.c (SpecCall): the frame of send_and_wait, the calls made and
    \* the messages the driver zone has sent the user zone
    call, nCalls, nResps,
    \* main.c (SpecLife): where run_server stands: at the test of the
    \* while loop ("loop"), inside its body ("body"), or returned
    \* ("stopped")
    srv,
    \* calls of the transport's public functions by the two processes
    \* (SpecConn): the last call made (zone, function, return value,
    \* message sent, received or built), the number of calls made, and per
    \* zone the number of messages its receive ring held when its
    \* idm_init last succeeded
    api, nApiCalls, pendingAtInit

transportVars == <<shm, sem, conn>>
senderVars == <<spc, sloc, sret, nSendCalls>>
receiverVars == <<rpc, rloc, rret, msg_out, nFaults>>
logVars == <<sentLog, recvLog>>
tableVars == <<hash_table, next_handle, total_handles, total_memory>>
tableCallVars == <<tcall, issued, nTableOps, returned>>
driverVars == <<gpu, running, requests_handled, disp, nReqs, client>>
buildVars == <<bpc, bloc, seq_lock, built, nBuilds>>
callVars == <<call, nCalls, nResps>>
lifeVars == <<srv>>
apiVars == <<api, nApiCalls, pendingAtInit>>

vars == <<shm, sem, conn, spc, sloc, sret, rpc, rloc, rret, msg_out,
          sentLog, recvLog, nSendCalls, nFaults,
          hash_table, next_handle, total_handles, total_memory,
          tcall, issued, nTableOps, returned, gpu, running,
          requests_handled,
          disp, nReqs, client, bpc, bloc, seq_lock, built, nBuilds,
          call, nCalls, nResps, srv, api, nApiCalls, pendingAtInit>>

Zones == {DRIVER_ZONE_ID, USER_ZONE_ID}

(***************************************************************************)
(* Transport (transport.c).                                                *)
(***************************************************************************)
\* a zeroed struct idm_ring
EmptyRing ==
    [producer |-> u32(0), consumer |-> u32(0),
     entries |-> [i \in 0..(IDM_RING_SIZE - 1) |-> ZeroMsg]]

\* no connection: global_conn == NULL
NoConn == [null |-> TRUE]

\* the struct idm_connection idm_init leaves in global_conn
idm_init(local_zone_id, remote_zone_id, is_server) ==
    [local_zone_id |-> local_zone_id, remote_zone_id |-> remote_zone_id,
     is_server |-> is_server, next_seq |-> 1, connected |-> TRUE]

\* init_shm: TX region keyed by the local zone, RX region by the remote
\* zone; TX semaphore named after the remote zone, RX after the local zone
tx_key(cn) == cn.local_zone_id
rx_key(cn) == cn.remote_zone_id
tx_sem(cn) == cn.remote_zone_id
rx_sem(cn) == cn.local_zone_id

NotConnected(cn) == cn = NoConn \/ ~cn.connected

\* the ring-full test of idm_send
RingFullOffByOne(prod, cons) == GtW(SubW(prod, cons), u32(IDM_RING_SIZE))

\* the full test taken on the values of the indices, not modulo 2^32
RingFullUnwrapped(prod, cons) ==
    IF LtW(prod, cons) THEN FALSE
    ELSE GeW(SubW(prod, cons), u32(IDM_RING_SIZE))

RingFull(prod, cons) == GeW(SubW(prod, cons), u32(IDM_RING_SIZE))

\* the ring-empty test of idm_recv
RingEmpty(prod, cons) == cons = prod

SlotIndexWrongModulus(i) == ModSmall(i, IDM_RING_SIZE \div 2)

SlotIndex(i) == ModSmall(i, IDM_RING_SIZE)

\* idm_send without the test of the message size against the slot
SendCheckNoSizeTest(cn, ring, msg) ==
    IF NotConnected(cn) THEN "-ENOTCONN"
    ELSE IF ~idm_message_valid(msg) THEN "-EINVAL"
    ELSE IF RingFull(ring.producer, ring.consumer) THEN "-ENOSPC"
    ELSE "0"

\* idm_send up to the ring-full test: the error returned, or "0"
SendCheck(cn, ring, msg) ==
    IF NotConnected(cn) THEN "-ENOTCONN"
    ELSE IF ~idm_message_valid(msg) THEN "-EINVAL"
    ELSE IF idm_message_size(msg) > SizeofRingEntry THEN "-EINVAL"
    ELSE IF RingFull(ring.producer, ring.consumer) THEN "-ENOSPC"
    ELSE "0"

\* memcpy(&ring->entries[idx].msg, msg, msg_size)
RingWrite(ring, prod, msg) ==
    [ring EXCEPT !.entries[SlotIndex(prod)] = msg]

\* ring->producer = prod + 1
RingPublish(ring, prod) == [ring EXCEPT !.producer = IncW(prod)]

\* ring->consumer = cons + 1
RingConsume(ring, cons) == [ring EXCEPT !.consumer = IncW(cons)]

\* idm_send as one call
idm_send(cn, sh, se, msg) ==
    LET chk == SendCheck(cn, IF NotConnected(cn) THEN EmptyRing
                             ELSE sh[tx_key(cn)], msg)
    IN  IF chk # "0" THEN [ret |-> chk, shm |-> sh, sem |-> se]
        ELSE LET ring == sh[tx_key(cn)]
                 prod == ring.producer
             IN  [ret |-> "0",
                  shm |-> [sh EXCEPT ![tx_key(cn)] =
                              RingPublish(RingWrite(ring, prod, msg), prod)],
                  sem |-> [se EXCEPT ![tx_sem(cn)] = @ + 1]]

\* the consumer index left alone when the slot is invalid
RecvReadStuckOnInvalid(ring, cons, mallocOk) ==
    LET ring_msg == ring.entries[SlotIndex(cons)]
    IN  IF ~idm_message_valid(ring_msg)
        THEN [ret |-> "-EINVAL", msg |-> NullMsg, advance |-> FALSE]
        ELSE IF ~mallocOk
        THEN [ret |-> "-ENOMEM", msg |-> NullMsg, advance |-> FALSE]
        ELSE [ret |-> "0", msg |-> ring_msg, advance |-> TRUE]

\* idm_recv from the slot read up to the copy-out (the wake has been
\* consumed and the ring found non-empty): validation, allocation, memcpy.
\* advance: the consumer index is published
RecvRead(ring, cons, mallocOk) ==
    LET ring_msg == ring.entries[SlotIndex(cons)]
    IN  IF ~idm_message_valid(ring_msg)
        THEN [ret |-> "-EINVAL", msg |-> NullMsg, advance |-> TRUE]
        ELSE IF ~mallocOk
        THEN [ret |-> "-ENOMEM", msg |-> NullMsg, advance |-> FALSE]
        ELSE [ret |-> "0", msg |-> ring_msg, advance |-> TRUE]

\* idm_recv as one call with a timeout >= 0 (sem_trywait / sem_timedwait):
\* with no wake pending the wait fails with -EAGAIN
idm_recv(cn, sh, se, mallocOk) ==
    IF NotConnected(cn)
    THEN [ret |-> "-ENOTCONN", msg |-> NullMsg, shm |-> sh, sem |-> se]
    ELSE IF se[rx_sem(cn)] = 0
    THEN [ret |-> "-EAGAIN", msg |-> NullMsg, shm |-> sh, sem |-> se]
    ELSE LET ring == sh[rx_key(cn)]
             cons == ring.consumer
             se2 == [se EXCEPT ![rx_sem(cn)] = @ - 1]
         IN  IF RingEmpty(ring.producer, cons)
             THEN [ret |-> "-EAGAIN", msg |-> NullMsg,
                   shm |-> sh, sem |-> se2]
             ELSE LET r == RecvRead(ring, cons, mallocOk)
                  IN  [ret |-> r.ret, msg |-> r.msg,
                       shm |-> IF r.advance
                               THEN [sh EXCEPT ![rx_key(cn)] =
                                        RingConsume(ring, cons)]
                               ELSE sh,
                       sem |-> se2]

\* idm_build_message: the message, and the connection with next_seq advanced
idm_build_message(cn, dst_zone, msg_type, payload, payload_len) ==
    [msg |-> Message(IDM_MAGIC, IDM_VERSION, msg_type, cn.local_zone_id,
                     dst_zone, cn.next_seq, payload_len, payload),
     conn |-> [cn EXCEPT !.next_seq = @ + 1]]

(***************************************************************************)
(* SpecRing: one direction of a connection.  The user zone's process calls *)
(* idm_send, the driver zone's process calls idm_recv; each call advances  *)
(* one shared-memory access at a time.                                     *)
(***************************************************************************)
\* the requests test.c sends: GPU_ALLOC of 1024 * (i + 1) bytes and
\* GPU_FREE of handle 0x42 + i, here alternating with the sequence number
TestRequest(cn) ==
    LET i == cn.next_seq % 5
    IN  IF cn.next_seq % 2 = 1
        THEN idm_build_message(cn, DRIVER_ZONE_ID, IDM_GPU_ALLOC,
                 [size |-> u64(1024 * (i + 1)), flags |-> 0], SizeofAlloc)
        ELSE idm_build_message(cn, DRIVER_ZONE_ID, IDM_GPU_FREE,
                 [handle |-> 66 + i], SizeofFree)

\* a message built by hand, as test_client.c does, with one header field off
HandBuilt(kind) ==
    LET magic == IF kind = "bad_magic" THEN 0 ELSE IDM_MAGIC
        version == IF kind = "bad_version" THEN IDM_VERSION + 1
                   ELSE IDM_VERSION
        len == IF kind = "too_long" THEN IDM_MAX_PAYLOAD_SIZE + 1
               ELSE IF kind = "too_big_for_slot"
               THEN SizeofRingEntry - SizeofHeader + 1
               ELSE SizeofCopyH2D
    IN  Message(magic, version, IDM_GPU_COPY_H2D, USER_ZONE_ID,
                DRIVER_ZONE_ID, 100, len,
                [dst_handle |-> 1, dst_offset |-> u64(0), size |-> u64(0),
                 data |-> <<>>])

HandBuiltKinds == {"bad_magic", "bad_version", "too_long", "too_big_for_slot"}

NoLocals == [none |-> TRUE]

\* send_and_wait is not running
NoFrame == [pc |-> "idle"]

\* the threads of the user zone's process that build messages
Threads == {1, 2}

\* idm_send, lines 326-354: connection, validity, size and ring-full checks
idm_send_enter(msg) ==
    /\ spc = "idle"
    /\ LET cn == conn[USER_ZONE_ID]
           ring == shm[tx_key(cn)]
           chk == SendCheck(cn, ring, msg)
       IN  IF chk # "0"
           THEN /\ sret' = chk
                /\ UNCHANGED <<spc, sloc>>
           ELSE /\ spc' = "copy"
                /\ sloc' = [msg |-> msg, prod |-> ring.producer]
                /\ sret' = "busy"
    /\ UNCHANGED <<shm, sem, receiverVars, logVars>>

\* the application builds a request with idm_build_message and sends it
SendBuilt ==
    /\ nSendCalls < MaxSends
    /\ LET b == TestRequest(conn[USER_ZONE_ID])
       IN  /\ idm_send_enter(b.msg)
           /\ conn' = [conn EXCEPT ![USER_ZONE_ID] = b.conn]
    /\ nSendCalls' = nSendCalls + 1

\* the application sends a message it built by hand
SendHandBuilt ==
    \E kind \in HandBuiltKinds :
        /\ idm_send_enter(HandBuilt(kind))
        /\ UNCHANGED <<conn, nSendCalls>>

\* line 358: memcpy of the message into the slot
idm_send_copy ==
    /\ spc = "copy"
    /\ shm' = [shm EXCEPT ![tx_key(conn[USER_ZONE_ID])] =
                  RingWrite(@, sloc.prod, sloc.msg)]
    /\ spc' = "publish"
    /\ UNCHANGED <<sem, conn, sloc, sret, nSendCalls, receiverVars, logVars>>

\* lines 361-364: write barrier, then the new producer index
idm_send_publish ==
    /\ spc = "publish"
    /\ shm' = [shm EXCEPT ![tx_key(conn[USER_ZONE_ID])] =
                  RingPublish(@, sloc.prod)]
    /\ sentLog' = Append(sentLog, sloc.msg)
    /\ spc' = "notify"
    /\ UNCHANGED <<sem, conn, sloc, sret, nSendCalls, receiverVars, recvLog>>

\* line 370: sem_post, and the return of 0
idm_send_notify ==
    /\ spc = "notify"
    /\ sem' = [sem EXCEPT ![tx_sem(conn[USER_ZONE_ID])] = @ + 1]
    /\ spc' = "idle"
    /\ sloc' = NoLocals
    /\ sret' = "0"
    /\ UNCHANGED <<shm, conn, nSendCalls, receiverVars, logVars>>

\* lines 408-440: the wait on the semaphore succeeds (any timeout)
idm_recv_wait ==
    /\ rpc = "idle"
    /\ ~NotConnected(conn[DRIVER_ZONE_ID])
    /\ sem[rx_sem(conn[DRIVER_ZONE_ID])] > 0
    /\ sem' = [sem EXCEPT ![rx_sem(conn[DRIVER_ZONE_ID])] = @ - 1]
    /\ rpc' = "load"
    /\ rret' = "busy"
    /\ UNCHANGED <<shm, conn, rloc, msg_out, nFaults, senderVars, logVars>>

\* lines 413-438: timeout >= 0 and no wake pending: -EAGAIN
idm_recv_timeout ==
    /\ rpc = "idle"
    /\ ~NotConnected(conn[DRIVER_ZONE_ID])
    /\ sem[rx_sem(conn[DRIVER_ZONE_ID])] = 0
    /\ rret' = "-EAGAIN"
    /\ UNCHANGED <<shm, sem, conn, rpc, rloc, msg_out, nFaults,
                   senderVars, logVars>>

\* lines 444-453: load consumer and producer, read barrier, empty test
idm_recv_load ==
    /\ rpc = "load"
    /\ LET ring == shm[rx_key(conn[DRIVER_ZONE_ID])]
       IN  IF RingEmpty(ring.producer, ring.consumer)
           THEN /\ rret' = "-EAGAIN"
                /\ rpc' = "idle"
                /\ UNCHANGED rloc
           ELSE /\ rpc' = "copy"
                /\ rloc' = [cons |-> ring.consumer, msg |-> NullMsg]
                /\ UNCHANGED rret
    /\ UNCHANGED <<shm, sem, conn, msg_out, nFaults, senderVars, logVars>>

\* lines 456-473: validate the slot, allocate, copy the message out
idm_recv_copy ==
    /\ rpc = "copy"
    /\ \E mallocOk \in BOOLEAN :
        /\ ~mallocOk => nFaults < MaxFaults
        /\ nFaults' = IF mallocOk THEN nFaults ELSE nFaults + 1
        /\ LET k == rx_key(conn[DRIVER_ZONE_ID])
               r == RecvRead(shm[k], rloc.cons, mallocOk)
           IN  IF r.ret = "0"
               THEN /\ rpc' = "publish"
                    /\ rloc' = [rloc EXCEPT !.msg = r.msg]
                    /\ UNCHANGED <<shm, rret>>
               ELSE /\ rpc' = "idle"
                    /\ rloc' = NoLocals
                    /\ rret' = r.ret
                    /\ shm' = IF r.advance
                              THEN [shm EXCEPT ![k] =
                                       RingConsume(@, rloc.cons)]
                              ELSE shm
    /\ UNCHANGED <<sem, conn, msg_out, senderVars, logVars>>

\* lines 476-482: write barrier, the new consumer index, *msg_out, return 0
idm_recv_publish ==
    /\ rpc = "publish"
    /\ shm' = [shm EXCEPT ![rx_key(conn[DRIVER_ZONE_ID])] =
                  RingConsume(@, rloc.cons)]
    /\ msg_out' = rloc.msg
    /\ recvLog' = Append(recvLog, rloc.msg)
    /\ rret' = "0"
    /\ rpc' = "idle"
    /\ rloc' = NoLocals
    /\ UNCHANGED <<sem, conn, nFaults, senderVars, sentLog>>

(***************************************************************************)
(* Initial state: the driver zone has run idm_init as server (both rings   *)
(* zeroed) and handle_table_init, the user zone has attached as client,    *)
(* the semaphores were created with value 0.                               *)
(***************************************************************************)
EmptyMap == [x \in {} |-> 0]

NoCall == [op |-> "none"]

\* no loop iteration has run yet
NoDispatch == [ret |-> "none", msg |-> NullMsg, calls |-> <<>>,
               responses |-> <<>>, sent |-> "none"]

\* no call of the transport's functions recorded
NoApiCall == [zone |-> 0, fn |-> "none", ret |-> "none", msg |-> NullMsg]

\* the user zone's thread is between calls
NoClient == [pc |-> "idle", req_seq |-> 0, send_ret |-> "none",
             recv_ret |-> "none", msg |-> NullMsg]

\* everything but the semaphores, the connections and the rings
InitButRings ==
    /\ spc = "idle" /\ sloc = NoLocals /\ sret = "none"
    /\ rpc = "idle" /\ rloc = NoLocals /\ rret = "none"
    /\ msg_out = NullMsg
    /\ sentLog = <<>> /\ recvLog = <<>>
    /\ nSendCalls = 0 /\ nFaults = 0
    /\ hash_table = EmptyMap
    /\ next_handle = 1 /\ total_handles = 0 /\ total_memory = u64(0)
    /\ tcall = NoCall /\ issued = EmptyMap /\ nTableOps = 0
    /\ returned = <<>>
    /\ gpu = EmptyMap
    /\ running = TRUE /\ requests_handled = 0
    /\ disp = NoDispatch
    /\ nReqs = 0
    /\ client = NoClient
    /\ bpc = [t \in Threads |-> "idle"]
    /\ bloc = [t \in Threads |-> NoLocals]
    /\ seq_lock = 0
    /\ built = <<>>
    /\ nBuilds = 0
    /\ call = NoFrame
    /\ nCalls = 0 /\ nResps = 0
    /\ srv = "loop"
    /\ api = NoApiCall
    /\ nApiCalls = 0
    /\ pendingAtInit = [z \in Zones |-> 0]

\* everything but the semaphores and the connections
InitButConn ==
    /\ InitButRings
    /\ shm = [z \in Zones |-> EmptyRing]

\* everything but the semaphores
InitButSem ==
    /\ InitButConn
    /\ conn = [z \in Zones |->
                 IF z = DRIVER_ZONE_ID
                 THEN idm_init(DRIVER_ZONE_ID, USER_ZONE_ID, TRUE)
                 ELSE idm_init(USER_ZONE_ID, DRIVER_ZONE_ID, FALSE)]

Init ==
    /\ InitButSem
    /\ sem = [z \in Zones |-> 0]

RingNext ==
    /\ \/ SendBuilt
       \/ SendHandBuilt
       \/ idm_send_copy
       \/ idm_send_publish
       \/ idm_send_notify
       \/ idm_recv_wait
       \/ idm_recv_timeout
       \/ idm_recv_load
       \/ idm_recv_copy
       \/ idm_recv_publish
    /\ UNCHANGED <<tableVars, tableCallVars, driverVars, buildVars,
                   callVars, lifeVars, apiVars>>

SpecRing == Init /\ [][RingNext]_vars

(***************************************************************************)
(* SpecWrap: SpecRing on a ring whose indices are about to wrap.  The      *)
(* indices are zeroed only by a server's idm_init, clients attach and      *)
(* detach without touching them: after 2^32 - 3 messages sent and          *)
(* received both indices are 2^32 - 3, the slots hold messages of earlier  *)
(* clients, and a newly attached client starts with next_seq = 1.          *)
(***************************************************************************)
\* 2^32 - 3 as uint32_t
WrapStart == <<LimbBase - 3, LimbBase - 1>>

\* a message consumed long ago, still in its slot
StaleMsg ==
    Message(IDM_MAGIC, IDM_VERSION, IDM_GPU_SYNC, USER_ZONE_ID,
            DRIVER_ZONE_ID, 7, SizeofSync, [flags |-> 0])

WrapInit ==
    /\ InitButRings
    /\ shm = [z \in Zones |->
                IF z = USER_ZONE_ID
                THEN [producer |-> WrapStart, consumer |-> WrapStart,
                      entries |-> [i \in 0..(IDM_RING_SIZE - 1) |->
                                     StaleMsg]]
                ELSE EmptyRing]
    /\ conn = [z \in Zones |->
                 IF z = DRIVER_ZONE_ID
                 THEN idm_init(DRIVER_ZONE_ID, USER_ZONE_ID, TRUE)
                 ELSE idm_init(USER_ZONE_ID, DRIVER_ZONE_ID, FALSE)]
    /\ sem = [z \in Zones |-> 0]

SpecWrap == WrapInit /\ [][RingNext]_vars

(***************************************************************************)
(* Claims on the ring transport (SpecRing).                                *)
(***************************************************************************)
\* the ring of the modelled direction, and its unsigned index difference
UserRing == shm[USER_ZONE_ID]
UserRingDiff == SubW(UserRing.producer, UserRing.consumer)
\* messages published by idm_send and not yet consumed by idm_recv
Unconsumed == Len(sentLog) - Len(recvLog)

Min(a, b) == IF a < b THEN a ELSE b

\* C1: the messages idm_recv has returned are, in order and field for
\* field, a prefix of the messages idm_send has published: none skipped,
\* none duplicated, none altered; the caller's *msg_out is the last of them
C1_FifoPrefix ==
    /\ Len(recvLog) <= Len(sentLog)
    /\ \A i \in 1..Len(recvLog) : recvLog[i] = sentLog[i]
    /\ Len(recvLog) > 0 => msg_out = sentLog[Len(recvLog)]

\* C1 witness: more than RING_SIZE messages were delivered, so slots were
\* reused, and the last delivery happened while the ring held several
C1_Witness ==
    /\ Len(recvLog) > IDM_RING_SIZE
    /\ rret = "0"
    /\ Unconsumed >= 1

\* C2: 0 <= producer - consumer <= RING_SIZE as an unsigned 32-bit
\* difference; the difference is the number of unconsumed messages, so the
\* ring is empty exactly when producer == consumer and the full test of
\* idm_send holds exactly when RING_SIZE messages are unconsumed
C2_RingBounds ==
    /\ IsSmall(UserRingDiff)
    /\ SmallVal(UserRingDiff) <= IDM_RING_SIZE
    /\ SmallVal(UserRingDiff) = Unconsumed
    /\ RingEmpty(UserRing.producer, UserRing.consumer) <=> Unconsumed = 0
    /\ RingFull(UserRing.producer, UserRing.consumer)
           <=> Unconsumed = IDM_RING_SIZE

\* C2 witness: the ring is full after the consumer has already advanced
C2_Witness ==
    /\ UserRingDiff = u32(IDM_RING_SIZE)
    /\ Len(recvLog) > 0

\* a step in which the application calls idm_send on a built (valid) message
SendBuiltStep == nSendCalls' = nSendCalls + 1

\* C3: an idm_send of a valid message on a ring holding RING_SIZE
\* unconsumed messages fails with -ENOSPC and changes neither ring nor
\* semaphores; on a ring holding fewer it is accepted; so with no receive
\* exactly the first RING_SIZE sends are accepted
C3_RingFull ==
    /\ [][SendBuiltStep =>
            IF Unconsumed = IDM_RING_SIZE
            THEN /\ sret' = "-ENOSPC"
                 /\ spc' = "idle"
                 /\ shm' = shm
                 /\ sem' = sem
                 /\ sentLog' = sentLog
            ELSE /\ spc' = "copy"
                 /\ sloc'.prod = UserRing.producer]_vars
    /\ []((Len(recvLog) = 0 /\ UserRing.consumer = u32(0) /\ spc = "idle")
            => Len(sentLog) = Min(nSendCalls, IDM_RING_SIZE))
    /\ []((spc = "idle" /\ sret = "0") => Len(sentLog) >= 1)

\* C3 witness: one send was refused on the full ring and, after the
\* receiver consumed a message, a later send was accepted
C3_Witness ==
    /\ nSendCalls = IDM_RING_SIZE + 2
    /\ Len(sentLog) = IDM_RING_SIZE + 1
    /\ Len(recvLog) = 1
    /\ sret = "0"

(***************************************************************************)
(* SpecWake: wakes and messages of one direction.  The user zone's process *)
(* calls idm_send, the driver zone's process calls idm_recv with any       *)
(* timeout, each as one call.  sem_open(O_CREAT) takes an existing         *)
(* semaphore with the value it has: wakes of an earlier run may be         *)
(* pending when the processes start, while the rings are zeroed.           *)
(***************************************************************************)
\* timeout_ms: block forever, do not block, wait a second
Timeouts == {-1, 0, 1000}

\* every wait blocks while no wake is pending
RecvWaitAlwaysBlocks(timeout_ms, count) ==
    IF count > 0 THEN "acquired" ELSE "blocked"

\* the wait of idm_recv on a semaphore of value count: sem_wait blocks
\* while no wake is pending, sem_trywait and sem_timedwait fail
RecvWait(timeout_ms, count) ==
    IF count > 0 THEN "acquired"
    ELSE IF timeout_ms < 0 THEN "blocked"
    ELSE "-EAGAIN"

WakeInit ==
    /\ InitButSem
    /\ \E k \in 0..MaxStaleWakes :
         sem = [z \in Zones |-> IF z = DRIVER_ZONE_ID THEN k ELSE 0]

\* the user zone builds a request and sends it
WakeSend ==
    /\ nSendCalls < MaxWakeSends
    /\ nSendCalls' = nSendCalls + 1
    /\ LET b == TestRequest(conn[USER_ZONE_ID])
           r == idm_send(b.conn, shm, sem, b.msg)
       IN  /\ shm' = r.shm
           /\ sem' = r.sem
           /\ conn' = [conn EXCEPT ![USER_ZONE_ID] = b.conn]
           /\ sret' = r.ret
           /\ sentLog' = IF r.ret = "0" THEN Append(sentLog, b.msg)
                         ELSE sentLog
    /\ UNCHANGED <<spc, sloc, receiverVars, recvLog>>

\* the driver zone calls idm_recv(&msg_out, timeout_ms) and the call
\* returns; rloc keeps the timeout of the last call
WakeRecv(timeout_ms) ==
    LET cn == conn[DRIVER_ZONE_ID]
    IN  /\ RecvWait(timeout_ms, sem[rx_sem(cn)]) # "blocked"
        /\ \E mallocOk \in BOOLEAN :
             LET r == idm_recv(cn, shm, sem, mallocOk)
             IN  /\ mallocOk \/ (r.ret = "-ENOMEM" /\ nFaults < MaxFaults)
                 /\ nFaults' = IF mallocOk THEN nFaults ELSE nFaults + 1
                 /\ shm' = r.shm
                 /\ sem' = r.sem
                 /\ rret' = r.ret
                 /\ msg_out' = IF r.ret = "0" THEN r.msg ELSE msg_out
                 /\ recvLog' = IF r.ret = "0" THEN Append(recvLog, r.msg)
                               ELSE recvLog
        /\ rloc' = [timeout_ms |-> timeout_ms]
        /\ UNCHANGED <<conn, rpc, senderVars, sentLog>>

\* the receiver polls: idm_recv with a timeout that does not block forever
WakeRecvPoll ==
    /\ \E t \in Timeouts \ {-1} : WakeRecv(t)
    /\ UNCHANGED <<tableVars, tableCallVars, driverVars, buildVars,
                   callVars, lifeVars, apiVars>>

WakeNext ==
    \/ WakeRecvPoll
    \/ /\ WakeSend \/ WakeRecv(-1)
       /\ UNCHANGED <<tableVars, tableCallVars, driverVars, buildVars,
                      callVars, lifeVars, apiVars>>

\* the receiver keeps calling idm_recv
SpecWake == WakeInit /\ [][WakeNext]_vars /\ WF_vars(WakeRecvPoll)

(***************************************************************************)
(* SpecOrder: SpecRing with the memcpy of idm_send taken in two parts, the *)
(* header of the message and then its payload, so that the receiver's      *)
(* steps fall between them.                                                *)
(***************************************************************************)
\* the payload is left as the slot had it
RingWritePayloadSkipped(ring, prod, msg) == ring

\* memcpy, first part: the header fields; the payload bytes of the slot are
\* still those of the message written there before
RingWriteHeader(ring, prod, msg) ==
    [ring EXCEPT !.entries[SlotIndex(prod)] =
        [msg EXCEPT !.payload = ring.entries[SlotIndex(prod)].payload]]

\* memcpy, second part: the payload
RingWritePayload(ring, prod, msg) ==
    [ring EXCEPT !.entries[SlotIndex(prod)].payload = msg.payload]

idm_send_copy_header ==
    /\ spc = "copy"
    /\ shm' = [shm EXCEPT ![tx_key(conn[USER_ZONE_ID])] =
                  RingWriteHeader(@, sloc.prod, sloc.msg)]
    /\ spc' = "copy_payload"
    /\ UNCHANGED <<sem, conn, sloc, sret, nSendCalls, receiverVars, logVars>>

idm_send_copy_payload ==
    /\ spc = "copy_payload"
    /\ shm' = [shm EXCEPT ![tx_key(conn[USER_ZONE_ID])] =
                  RingWritePayload(@, sloc.prod, sloc.msg)]
    /\ spc' = "publish"
    /\ UNCHANGED <<sem, conn, sloc, sret, nSendCalls, receiverVars, logVars>>

OrderNext ==
    /\ \/ SendBuilt
       \/ idm_send_copy_header
       \/ idm_send_copy_payload
       \/ idm_send_publish
       \/ idm_send_notify
       \/ idm_recv_wait
       \/ idm_recv_timeout
       \/ idm_recv_load
       \/ idm_recv_copy
       \/ idm_recv_publish
    /\ UNCHANGED <<tableVars, tableCallVars, driverVars, buildVars,
                   callVars, lifeVars, apiVars>>

SpecOrder == Init /\ [][OrderNext]_vars

(***************************************************************************)
(* SpecBuild: two threads of the user zone's process call                  *)
(* idm_build_message on the one connection of the process.  The increment  *)
(* of next_seq is a load and a store; seq_lock is taken around them.       *)
(***************************************************************************)
\* pthread_mutex_lock returns at once: the lock is never found held
SeqLockNeverHeld(lock) == TRUE

\* pthread_mutex_lock(&conn->seq_lock) can return: the lock is free
SeqLockFree(lock) == lock = 0

\* lines 494-505: global_conn is set; malloc of the message
idm_build_message_enter(t) ==
    /\ bpc[t] = "idle"
    /\ nBuilds < MaxBuilds
    /\ nBuilds' = nBuilds + 1
    /\ conn[USER_ZONE_ID] # NoConn
    /\ \E mallocOk \in BOOLEAN :
         IF mallocOk
         THEN /\ bpc' = [bpc EXCEPT ![t] = "lock"]
              /\ bloc' = [bloc EXCEPT ![t] = [after |-> Len(built)]]
         ELSE UNCHANGED <<bpc, bloc>>
    /\ UNCHANGED <<conn, seq_lock, built>>

\* line 508
idm_build_message_lock(t) ==
    /\ bpc[t] = "lock"
    /\ SeqLockFree(seq_lock)
    /\ seq_lock' = t
    /\ bpc' = [bpc EXCEPT ![t] = "load"]
    /\ UNCHANGED <<conn, bloc, built, nBuilds>>

\* line 509, the read of conn->next_seq
idm_build_message_load(t) ==
    /\ bpc[t] = "load"
    /\ bloc' = [bloc EXCEPT ![t] =
                  [after |-> bloc[t].after,
                   seq |-> conn[USER_ZONE_ID].next_seq]]
    /\ bpc' = [bpc EXCEPT ![t] = "store"]
    /\ UNCHANGED <<conn, seq_lock, built, nBuilds>>

\* line 509, the write of conn->next_seq
idm_build_message_store(t) ==
    /\ bpc[t] = "store"
    /\ conn' = [conn EXCEPT ![USER_ZONE_ID].next_seq = bloc[t].seq + 1]
    /\ bpc' = [bpc EXCEPT ![t] = "unlock"]
    /\ UNCHANGED <<bloc, seq_lock, built, nBuilds>>

\* line 510
idm_build_message_unlock(t) ==
    /\ bpc[t] = "unlock"
    /\ seq_lock' = 0
    /\ bpc' = [bpc EXCEPT ![t] = "fill"]
    /\ UNCHANGED <<conn, bloc, built, nBuilds>>

\* lines 513-527: the header is filled and the message returned.  after:
\* the number of calls that had returned when this one was entered
idm_build_message_return(t) ==
    /\ bpc[t] = "fill"
    /\ built' = Append(built,
                   [thread |-> t, after |-> bloc[t].after,
                    msg |-> Message(IDM_MAGIC, IDM_VERSION, IDM_GPU_SYNC,
                                conn[USER_ZONE_ID].local_zone_id,
                                DRIVER_ZONE_ID, bloc[t].seq, SizeofSync,
                                [flags |-> 0])])
    /\ bpc' = [bpc EXCEPT ![t] = "idle"]
    /\ bloc' = [bloc EXCEPT ![t] = NoLocals]
    /\ UNCHANGED <<conn, seq_lock, nBuilds>>

BuildNext ==
    /\ \E t \in Threads :
         \/ idm_build_message_enter(t)
         \/ idm_build_message_lock(t)
         \/ idm_build_message_load(t)
         \/ idm_build_message_store(t)
         \/ idm_build_message_unlock(t)
         \/ idm_build_message_return(t)
    /\ UNCHANGED <<shm, sem, senderVars, receiverVars, logVars, tableVars,
                   tableCallVars, driverVars, callVars, lifeVars, apiVars>>

SpecBuild == Init /\ [][BuildNext]_vars

\* C13: between idm_init and idm_cleanup the sequence numbers one endpoint
\* assigns start at 1 and grow: every message idm_build_message returns
\* carries a seq_num of at least 1 that no other returned message carries,
\* larger than the seq_num of every call that had returned before this call
\* was entered, also when two threads are inside the function together
C13_SeqNumsIncrease ==
    /\ \A i \in DOMAIN built :
         /\ built[i].msg.seq_num >= 1
         /\ built[i].msg.seq_num < conn[USER_ZONE_ID].next_seq
         /\ \A j \in DOMAIN built :
              /\ i # j => built[i].msg.seq_num # built[j].msg.seq_num
              /\ j <= built[i].after
                   => built[j].msg.seq_num < built[i].msg.seq_num
    /\ (built # <<>> /\ \A t \in Threads : bpc[t] = "idle")
         => \E i \in DOMAIN built : built[i].msg.seq_num = 1

\* one thread waits for seq_lock while the other holds it, after each of
\* the two threads has had a message returned
C13_Witness ==
    /\ bpc[1] = "lock"
    /\ seq_lock = 2
    /\ \E i, j \in DOMAIN built :
         built[i].thread = 1 /\ built[j].thread = 2

(***************************************************************************)
(* Handle table (handle_table.c).  A table is the record of the file's     *)
(* static variables; a bucket that holds NULL is absent from hash_table,   *)
(* a chain is the sequence of its entries from the head.                   *)
(***************************************************************************)
HASH_TABLE_SIZE == 1024

\* a NULL pointer
NULL == 0

hash_handle(handle) == handle % HASH_TABLE_SIZE

Chain(ht, idx) == IF idx \in DOMAIN ht THEN ht[idx] ELSE <<>>

\* hash_table with the chain of bucket idx replaced
SetChain(ht, idx, chain) ==
    IF chain = <<>>
    THEN [i \in DOMAIN ht \ {idx} |-> ht[i]]
    ELSE [i \in DOMAIN ht \cup {idx} |-> IF i = idx THEN chain ELSE ht[i]]

\* the static variables of handle_table.c
Table == [hash_table |-> hash_table, next_handle |-> next_handle,
          total_handles |-> total_handles, total_memory |-> total_memory]

handle_table_init(T) ==
    [hash_table |-> EmptyMap, next_handle |-> 1,
     total_handles |-> 0, total_memory |-> u64(0)]

\* position in the chain of the first entry with this handle, 0 if none
RECURSIVE FindFrom(_, _, _)
FindFrom(chain, handle, i) ==
    IF i > Len(chain) THEN 0
    ELSE IF chain[i].handle = handle THEN i
    ELSE FindFrom(chain, handle, i + 1)

FindEntry(chain, handle) == FindFrom(chain, handle, 1)

RemoveAt(chain, i) ==
    [j \in 1..(Len(chain) - 1) |-> IF j < i THEN chain[j] ELSE chain[j + 1]]

\* next_handle is not advanced
handle_table_insert_same_handle(T, zone_id, ptr, size, mallocOk) ==
    IF ptr = NULL \/ ~mallocOk
    THEN [ret |-> 0, table |-> T]
    ELSE LET entry == [handle |-> T.next_handle, zone_id |-> zone_id,
                       ptr |-> ptr, size |-> size]
             idx == hash_handle(entry.handle)
         IN  [ret |-> entry.handle,
              table |->
                [hash_table |-> SetChain(T.hash_table, idx,
                                    <<entry>> \o Chain(T.hash_table, idx)),
                 next_handle |-> T.next_handle,
                 total_handles |-> T.total_handles + 1,
                 total_memory |-> AddW(T.total_memory, size)]]

handle_table_insert(T, zone_id, ptr, size, mallocOk) ==
    IF ptr = NULL \/ ~mallocOk
    THEN [ret |-> 0, table |-> T]
    ELSE LET entry == [handle |-> T.next_handle, zone_id |-> zone_id,
                       ptr |-> ptr, size |-> size]
             idx == hash_handle(entry.handle)
         IN  [ret |-> entry.handle,
              table |->
                [hash_table |-> SetChain(T.hash_table, idx,
                                    <<entry>> \o Chain(T.hash_table, idx)),
                 next_handle |-> T.next_handle + 1,
                 total_handles |-> T.total_handles + 1,
                 total_memory |-> AddW(T.total_memory, size)]]

\* *size_out written before the owner is compared
handle_table_lookup_leaks_size(T, zone_id, handle) ==
    LET chain == Chain(T.hash_table, hash_handle(handle))
        i == FindEntry(chain, handle)
    IN  IF i = 0
        THEN [ptr |-> NULL, size |-> u64(0), log |-> ""]
        ELSE IF chain[i].zone_id # zone_id
        THEN [ptr |-> NULL, size |-> chain[i].size, log |-> "SECURITY"]
        ELSE [ptr |-> chain[i].ptr, size |-> chain[i].size, log |-> ""]

\* log: the diagnostic written to stderr ("" when none);
\* size: *size_out, written only when the pointer is returned
handle_table_lookup(T, zone_id, handle) ==
    LET chain == Chain(T.hash_table, hash_handle(handle))
        i == FindEntry(chain, handle)
    IN  IF i = 0
        THEN [ptr |-> NULL, size |-> u64(0), log |-> ""]
        ELSE IF chain[i].zone_id # zone_id
        THEN [ptr |-> NULL, size |-> u64(0), log |-> "SECURITY"]
        ELSE [ptr |-> chain[i].ptr, size |-> chain[i].size, log |-> ""]

handle_table_remove_no_owner_check(T, zone_id, handle) ==
    LET idx == hash_handle(handle)
        chain == Chain(T.hash_table, idx)
        i == FindEntry(chain, handle)
    IN  IF i = 0
        THEN [ptr |-> NULL, table |-> T, log |-> ""]
        ELSE [ptr |-> chain[i].ptr,
              table |->
                [hash_table |-> SetChain(T.hash_table, idx,
                                         RemoveAt(chain, i)),
                 next_handle |-> T.next_handle,
                 total_handles |-> T.total_handles - 1,
                 total_memory |-> SubW(T.total_memory, chain[i].size)],
              log |-> ""]

\* the entry is unlinked but total_memory keeps its size
handle_table_remove_keeps_memory(T, zone_id, handle) ==
    LET idx == hash_handle(handle)
        chain == Chain(T.hash_table, idx)
        i == FindEntry(chain, handle)
    IN  IF i = 0
        THEN [ptr |-> NULL, table |-> T, log |-> ""]
        ELSE IF chain[i].zone_id # zone_id
        THEN [ptr |-> NULL, table |-> T, log |-> "SECURITY"]
        ELSE [ptr |-> chain[i].ptr,
              table |->
                [hash_table |-> SetChain(T.hash_table, idx,
                                         RemoveAt(chain, i)),
                 next_handle |-> T.next_handle,
                 total_handles |-> T.total_handles - 1,
                 total_memory |-> T.total_memory],
              log |-> ""]

\* the entry is left in its chain
handle_table_remove_keeps_entry(T, zone_id, handle) ==
    LET idx == hash_handle(handle)
        chain == Chain(T.hash_table, idx)
        i == FindEntry(chain, handle)
    IN  IF i = 0
        THEN [ptr |-> NULL, table |-> T, log |-> ""]
        ELSE IF chain[i].zone_id # zone_id
        THEN [ptr |-> NULL, table |-> T, log |-> "SECURITY"]
        ELSE [ptr |-> chain[i].ptr, table |-> T, log |-> ""]

handle_table_remove(T, zone_id, handle) ==
    LET idx == hash_handle(handle)
        chain == Chain(T.hash_table, idx)
        i == FindEntry(chain, handle)
    IN  IF i = 0
        THEN [ptr |-> NULL, table |-> T, log |-> ""]
        ELSE IF chain[i].zone_id # zone_id
        THEN [ptr |-> NULL, table |-> T, log |-> "SECURITY"]
        ELSE [ptr |-> chain[i].ptr,
              table |->
                [hash_table |-> SetChain(T.hash_table, idx,
                                         RemoveAt(chain, i)),
                 next_handle |-> T.next_handle,
                 total_handles |-> T.total_handles - 1,
                 total_memory |-> SubW(T.total_memory, chain[i].size)],
              log |-> ""]

handle_table_stats(T) ==
    [total_handles |-> T.total_handles, total_memory |-> T.total_memory]

handle_table_cleanup(T) ==
    [hash_table |-> EmptyMap, next_handle |-> 1,
     total_handles |-> 0, total_memory |-> u64(0)]

\* the static variables take the values of table T
SetTable(T) ==
    /\ hash_table' = T.hash_table
    /\ next_handle' = T.next_handle
    /\ total_handles' = T.total_handles
    /\ total_memory' = T.total_memory

\* every entry of the table
TableEntries(T) ==
    UNION {{T.hash_table[idx][i] : i \in 1..Len(T.hash_table[idx])} :
              idx \in DOMAIN T.hash_table}

(***************************************************************************)
(* SpecTable: the handle table driven by direct calls.                     *)
(***************************************************************************)
TableZones == {USER_ZONE_ID, OTHER_ZONE_ID}
TablePtrs == {NULL, 4096, 8192}
TableSizes == {u64(1024), u64(1048576)}
TableHandles == 0..(MaxTableOps + 1)

\* issued with handle h dropped
Forget(f, h) == [x \in DOMAIN f \ {h} |-> f[x]]

\* issued with handle h recorded
Remember(f, h, v) == [x \in DOMAIN f \cup {h} |-> IF x = h THEN v ELSE f[x]]

TableInsert ==
    \E zone \in TableZones, ptr \in TablePtrs, size \in TableSizes,
       mallocOk \in BOOLEAN :
        LET r == handle_table_insert(Table, zone, ptr, size, mallocOk)
        IN  /\ SetTable(r.table)
            /\ tcall' = [op |-> "insert", zone |-> zone, handle |-> r.ret,
                         ptr |-> ptr, size |-> size]
            /\ issued' = IF r.ret # 0
                         THEN Remember(issued, r.ret,
                                  [zone_id |-> zone, ptr |-> ptr,
                                   size |-> size])
                         ELSE issued
            /\ returned' = IF r.ret # 0 THEN Append(returned, r.ret)
                           ELSE returned

TableLookup ==
    \E zone \in TableZones, handle \in TableHandles :
        LET r == handle_table_lookup(Table, zone, handle)
        IN  /\ tcall' = [op |-> "lookup", zone |-> zone, handle |-> handle,
                         ptr |-> r.ptr, size |-> r.size]
            /\ UNCHANGED <<tableVars, issued, returned>>

TableRemove ==
    \E zone \in TableZones, handle \in TableHandles :
        LET r == handle_table_remove(Table, zone, handle)
        IN  /\ SetTable(r.table)
            /\ tcall' = [op |-> "remove", zone |-> zone, handle |-> handle,
                         ptr |-> r.ptr, size |-> u64(0)]
            /\ issued' = IF r.ptr # NULL THEN Forget(issued, handle)
                         ELSE issued
            /\ UNCHANGED returned

TableStats ==
    LET r == handle_table_stats(Table)
    IN  /\ tcall' = [op |-> "stats", zone |-> 0, handle |-> r.total_handles,
                     ptr |-> NULL, size |-> r.total_memory]
        /\ UNCHANGED <<tableVars, issued, returned>>

TableCleanup ==
    /\ SetTable(handle_table_cleanup(Table))
    /\ tcall' = [op |-> "cleanup", zone |-> 0, handle |-> 0,
                 ptr |-> NULL, size |-> u64(0)]
    /\ issued' = EmptyMap
    /\ UNCHANGED returned

TableInit ==
    /\ SetTable(handle_table_init(Table))
    /\ tcall' = [op |-> "init", zone |-> 0, handle |-> 0,
                 ptr |-> NULL, size |-> u64(0)]
    /\ issued' = EmptyMap
    /\ UNCHANGED returned

TableNext ==
    /\ nTableOps < MaxTableOps
    /\ nTableOps' = nTableOps + 1
    /\ \/ TableInsert
       \/ TableLookup
       \/ TableRemove
       \/ TableStats
       \/ TableCleanup
       \/ TableInit
    /\ UNCHANGED <<transportVars, senderVars, receiverVars, logVars,
                   driverVars, buildVars, callVars, lifeVars, apiVars>>

SpecTable == Init /\ [][TableNext]_vars

(***************************************************************************)
(* Driver dispatcher (handlers.c, main.c).  The backing GPU driver is the  *)
(* map gpu from live device pointers to allocation sizes; each backend     *)
(* call returns the CUresult res chosen by the environment.  A handler     *)
(* yields the new table, the new backend state, the backend calls it made  *)
(* (calls) and the response it hands to send_response_ok/_error (resp).    *)
(***************************************************************************)
NoResponse == [kind |-> "none"]

\* resp.request_seq left at the zero of the memset
ResponseOkNoSeq(dst_zone, request_seq, result_handle) ==
    [kind |-> "ok", dst_zone |-> dst_zone, request_seq |-> 0,
     result_handle |-> result_handle, data_len |-> 0]

\* the arguments of a send_response_ok call
ResponseOk(dst_zone, request_seq, result_handle) ==
    [kind |-> "ok", dst_zone |-> dst_zone, request_seq |-> request_seq,
     result_handle |-> result_handle, data_len |-> 0]

\* the arguments of a send_response_error call
ResponseError(dst_zone, request_seq, error_code, cuda_error, error_msg) ==
    [kind |-> "error", dst_zone |-> dst_zone, request_seq |-> request_seq,
     error_code |-> error_code, cuda_error |-> cuda_error,
     error_msg |-> error_msg]

\* a call into the backing driver: function, device pointer, byte offset
\* added to it, length, result
BackendCall(fn, ptr, offset, size, res) ==
    [fn |-> fn, ptr |-> ptr, offset |-> offset, size |-> size, res |-> res]

\* the device pointer cuMemAlloc returns: an address not in use
DevicePtrs == {4096 * k : k \in 1..(MaxReqs + MaxPipeReqs)}
FreshPtr(G) ==
    CHOOSE p \in DevicePtrs \ DOMAIN G :
        \A q \in DevicePtrs \ DOMAIN G : p <= q

Outcome(T, G, calls, resp) ==
    [table |-> T, gpu |-> G, calls |-> calls, resp |-> resp]

\* res2: the result of the cuMemFree that rolls back a failed insertion
handle_gpu_alloc(msg, T, G, res, res2, insertOk) ==
    LET req == msg.payload
        zone_id == msg.src_zone
        seq == msg.seq_num
    IN  IF res # CUDA_SUCCESS
        THEN Outcome(T, G,
                 <<BackendCall("cuMemAlloc", NULL, u64(0), req.size, res)>>,
                 ResponseError(zone_id, seq, IDM_ERROR_CUDA_ERROR, res,
                               "cuMemAlloc failed"))
        ELSE LET device_ptr == FreshPtr(G)
                 alloc == BackendCall("cuMemAlloc", device_ptr, u64(0),
                                      req.size, res)
                 ins == handle_table_insert(T, zone_id, device_ptr, req.size,
                                            insertOk)
             IN  IF ins.ret = 0
                 THEN Outcome(T,
                          IF res2 = CUDA_SUCCESS THEN G
                          ELSE Remember(G, device_ptr, req.size),
                          <<alloc, BackendCall("cuMemFree", device_ptr,
                                       u64(0), u64(0), res2)>>,
                          ResponseError(zone_id, seq,
                              IDM_ERROR_OUT_OF_MEMORY, 0,
                              "Failed to create handle"))
                 ELSE Outcome(ins.table,
                          Remember(G, device_ptr, req.size),
                          <<alloc>>,
                          ResponseOk(zone_id, seq, ins.ret))

handle_gpu_free(msg, T, G, res) ==
    LET req == msg.payload
        zone_id == msg.src_zone
        seq == msg.seq_num
        rem == handle_table_remove(T, zone_id, req.handle)
    IN  IF rem.ptr = NULL
        THEN Outcome(T, G, <<>>,
                 ResponseError(zone_id, seq, IDM_ERROR_INVALID_HANDLE, 0,
                               "Invalid handle or permission denied"))
        ELSE LET free == BackendCall("cuMemFree", rem.ptr, u64(0), u64(0),
                                     res)
             IN  IF res # CUDA_SUCCESS
                 THEN Outcome(rem.table, G, <<free>>,
                          ResponseError(zone_id, seq, IDM_ERROR_CUDA_ERROR,
                                        res, "cuMemFree failed"))
                 ELSE Outcome(rem.table, Forget(G, rem.ptr), <<free>>,
                          ResponseOk(zone_id, seq, 0))

\* the bounds test of the copy handlers, in uint64_t arithmetic
OutOfBounds(offset, size, alloc_size) ==
    GtW(AddW(offset, size), alloc_size)

handle_gpu_copy_h2d(msg, T, G, res) ==
    LET req == msg.payload
        zone_id == msg.src_zone
        seq == msg.seq_num
        look == handle_table_lookup(T, zone_id, req.dst_handle)
    IN  IF look.ptr = NULL
        THEN Outcome(T, G, <<>>,
                 ResponseError(zone_id, seq, IDM_ERROR_INVALID_HANDLE, 0,
                               "Invalid handle"))
        ELSE IF OutOfBounds(req.dst_offset, req.size, look.size)
        THEN Outcome(T, G, <<>>,
                 ResponseError(zone_id, seq, IDM_ERROR_INVALID_SIZE, 0,
                               "Out of bounds"))
        ELSE LET copy == BackendCall("cuMemcpyHtoD", look.ptr,
                                     req.dst_offset, req.size, res)
             IN  IF res # CUDA_SUCCESS
                 THEN Outcome(T, G, <<copy>>,
                          ResponseError(zone_id, seq, IDM_ERROR_CUDA_ERROR,
                                        res, "cuMemcpyHtoD failed"))
                 ELSE Outcome(T, G, <<copy>>, ResponseOk(zone_id, seq, 0))

\* hostOk: malloc(req->size) of the staging buffer succeeds
handle_gpu_copy_d2h(msg, T, G, res, hostOk) ==
    LET req == msg.payload
        zone_id == msg.src_zone
        seq == msg.seq_num
        look == handle_table_lookup(T, zone_id, req.src_handle)
    IN  IF look.ptr = NULL
        THEN Outcome(T, G, <<>>,
                 ResponseError(zone_id, seq, IDM_ERROR_INVALID_HANDLE, 0,
                               "Invalid handle"))
        ELSE IF OutOfBounds(req.src_offset, req.size, look.size)
        THEN Outcome(T, G, <<>>,
                 ResponseError(zone_id, seq, IDM_ERROR_INVALID_SIZE, 0,
                               "Out of bounds"))
        ELSE IF ~hostOk
        THEN Outcome(T, G, <<>>,
                 ResponseError(zone_id, seq, IDM_ERROR_OUT_OF_MEMORY, 0,
                               "Out of memory"))
        ELSE LET copy == BackendCall("cuMemcpyDtoH", look.ptr,
                                     req.src_offset, req.size, res)
             IN  IF res # CUDA_SUCCESS
                 THEN Outcome(T, G, <<copy>>,
                          ResponseError(zone_id, seq, IDM_ERROR_CUDA_ERROR,
                                        res, "cuMemcpyDtoH failed"))
                 ELSE Outcome(T, G, <<copy>>, ResponseOk(zone_id, seq, 0))

handle_gpu_sync(msg, T, G, res) ==
    LET zone_id == msg.src_zone
        seq == msg.seq_num
        sync == BackendCall("cuCtxSynchronize", NULL, u64(0), u64(0), res)
    IN  IF res # CUDA_SUCCESS
        THEN Outcome(T, G, <<sync>>,
                 ResponseError(zone_id, seq, IDM_ERROR_CUDA_ERROR, res,
                               "cuCtxSynchronize failed"))
        ELSE Outcome(T, G, <<sync>>, ResponseOk(zone_id, seq, 0))

\* the switch of run_server; env: the outcomes the environment chooses
Dispatch(msg, T, G, env) ==
    IF msg.msg_type = IDM_GPU_ALLOC
    THEN handle_gpu_alloc(msg, T, G, env.res, env.res2, env.mallocOk)
    ELSE IF msg.msg_type = IDM_GPU_FREE
    THEN handle_gpu_free(msg, T, G, env.res)
    ELSE IF msg.msg_type = IDM_GPU_COPY_H2D
    THEN handle_gpu_copy_h2d(msg, T, G, env.res)
    ELSE IF msg.msg_type = IDM_GPU_COPY_D2H
    THEN handle_gpu_copy_d2h(msg, T, G, env.res, env.mallocOk)
    ELSE IF msg.msg_type = IDM_GPU_SYNC
    THEN handle_gpu_sync(msg, T, G, env.res)
    ELSE Outcome(T, G, <<>>, NoResponse)

\* the message send_response_ok / send_response_error builds and sends
\* on connection cn
ResponseMessage(cn, resp) ==
    IF resp.kind = "ok"
    THEN idm_build_message(cn, resp.dst_zone, IDM_RESPONSE_OK,
             [request_seq |-> resp.request_seq,
              result_handle |-> resp.result_handle,
              result_value |-> 0, data_len |-> resp.data_len],
             SizeofResponseOk)
    ELSE idm_build_message(cn, resp.dst_zone, IDM_RESPONSE_ERROR,
             [request_seq |-> resp.request_seq,
              error_code |-> resp.error_code,
              cuda_error |-> resp.cuda_error,
              error_msg |-> resp.error_msg],
             SizeofResponseError)

(***************************************************************************)
(* Spec: the GPU proxy daemon (main.c) serving the user zone.  The driver  *)
(* zone runs the loop of run_server; the user zone is any process attached *)
(* to the shared rings: it sends requests with idm_send, may write its     *)
(* transmit ring directly, and receives responses with idm_recv.           *)
(***************************************************************************)
\* the outcomes the environment chooses during one loop iteration:
\* recvOk: malloc in idm_recv; res, res2: the results of the backend calls;
\* mallocOk: malloc in handle_table_insert or of the D2H staging buffer;
\* buildOk: malloc in idm_build_message of the response
Envs ==
    [recvOk : BOOLEAN, res : {CUDA_SUCCESS, CUDA_FAILURE},
     res2 : {CUDA_SUCCESS, CUDA_FAILURE}, mallocOk : BOOLEAN,
     buildOk : BOOLEAN]

\* the failed allocations and failed backend calls among them
Failures(env) ==
    (IF env.recvOk THEN 0 ELSE 1) + (IF env.mallocOk THEN 0 ELSE 1)
    + (IF env.buildOk THEN 0 ELSE 1)
    + (IF env.res = CUDA_SUCCESS THEN 0 ELSE 1)
    + (IF env.res2 = CUDA_SUCCESS THEN 0 ELSE 1)

\* send_response_ok / send_response_error: build, idm_send, free
send_response(cn, sh, se, resp, buildOk) ==
    IF ~buildOk
    THEN [ret |-> "-1", conn |-> cn, shm |-> sh, sem |-> se]
    ELSE LET b == ResponseMessage(cn, resp)
             r == idm_send(b.conn, sh, se, b.msg)
         IN  [ret |-> r.ret, conn |-> b.conn, shm |-> r.shm, sem |-> r.sem]

\* one iteration of the loop of run_server that gets past the wait of
\* idm_recv, as a function of the state it starts in: the state it leaves
\* and what it did (handled: requests_handled is incremented)
Iteration(cn, sh, se, T, G, env) ==
    LET r == idm_recv(cn, sh, se, env.recvOk)
    IN  IF r.ret # "0"
        THEN [shm |-> r.shm, sem |-> r.sem, conn |-> cn, table |-> T,
              gpu |-> G, handled |-> 0,
              disp |-> [ret |-> r.ret, msg |-> NullMsg, calls |-> <<>>,
                        responses |-> <<>>, sent |-> "none"]]
        ELSE LET out == Dispatch(r.msg, T, G, env)
             IN  IF out.resp = NoResponse
                 THEN [shm |-> r.shm, sem |-> r.sem, conn |-> cn,
                       table |-> out.table, gpu |-> out.gpu, handled |-> 1,
                       disp |-> [ret |-> r.ret, msg |-> r.msg,
                                 calls |-> out.calls, responses |-> <<>>,
                                 sent |-> "none"]]
                 ELSE LET s == send_response(cn, r.shm, r.sem, out.resp,
                                             env.buildOk)
                      IN  [shm |-> s.shm, sem |-> s.sem, conn |-> s.conn,
                           table |-> out.table, gpu |-> out.gpu,
                           handled |-> 1,
                           disp |-> [ret |-> r.ret, msg |-> r.msg,
                                     calls |-> out.calls,
                                     responses |-> <<out.resp>>,
                                     sent |-> s.ret]]

\* the failures an iteration met, read off what it did
Faulted(d) ==
    (IF d.ret = "-ENOMEM" THEN 1 ELSE 0)
    + Cardinality({i \in DOMAIN d.calls : d.calls[i].res # CUDA_SUCCESS})
    + (IF d.responses # <<>> /\ d.responses[1].kind = "error"
          /\ d.responses[1].error_code = IDM_ERROR_OUT_OF_MEMORY
       THEN 1 ELSE 0)
    + (IF d.sent = "-1" THEN 1 ELSE 0)

\* the body of the loop of run_server: one iteration.  The environment
\* fails only calls the iteration makes
LoopIteration ==
    /\ LET cn == conn[DRIVER_ZONE_ID]
       IN  IF sem[rx_sem(cn)] = 0
           THEN \* sem_timedwait times out, idm_recv returns -EAGAIN: continue
                /\ idm_recv(cn, shm, sem, TRUE).ret = "-EAGAIN"
                /\ UNCHANGED <<shm, sem, conn, disp, tableVars, gpu,
                               requests_handled, nFaults>>
           ELSE \E env \in {e \in Envs :
                                nFaults + Failures(e) <= MaxDriverFaults} :
                  LET it == Iteration(cn, shm, sem, Table, gpu, env)
                  IN  /\ Failures(env) = Faulted(it.disp)
                      /\ nFaults' = nFaults + Failures(env)
                      /\ shm' = it.shm
                      /\ sem' = it.sem
                      /\ conn' = [conn EXCEPT ![DRIVER_ZONE_ID] = it.conn]
                      /\ SetTable(it.table)
                      /\ gpu' = it.gpu
                      /\ requests_handled' = requests_handled + it.handled
                      /\ disp' = it.disp
    /\ UNCHANGED <<senderVars, rpc, rloc, rret, msg_out, logVars,
                   tableCallVars, nReqs, client>>

\* the loop of run_server while no signal arrives: the test of running and
\* one iteration
DispatchIteration ==
    /\ running
    /\ LoopIteration
    /\ UNCHANGED running

\* a request as the user zone's library builds it, with the source zone
\* field set to src
Request(cn, src, msg_type, payload, payload_len) ==
    [idm_build_message(cn, DRIVER_ZONE_ID, msg_type, payload,
                       payload_len).msg EXCEPT !.src_zone = src]

AllocSize == u64(1048576)

\* (offset, size) of a copy ending exactly at the end of a 1048576-byte
\* allocation
InBounds == <<u64(1048566), u64(10)>>

\* (offset, size) pairs of the copy requests: in bounds, ending one byte
\* past the end, and a pair whose 64-bit sum wraps around
CopyGeometries ==
    {InBounds, <<u64(1048566), u64(11)>>, <<u64_minus(8), u64(16)>>}

\* offset 1048570, size 10: ends 4 bytes past the end
PastEnd == <<u64(1048570), u64(10)>>

\* the zone numbers a message may carry in src_zone: the sender's own and
\* another zone's
SrcZones == {USER_ZONE_ID, OTHER_ZONE_ID}

\* source zone and geometry of the copy requests
CopyTargets ==
    {<<USER_ZONE_ID, g>> : g \in CopyGeometries}
    \cup {<<OTHER_ZONE_ID, InBounds>>}

\* the handle the requests name: the first one the table issues
FirstHandle == 1

CopyH2D(cn, t) ==
    Request(cn, t[1], IDM_GPU_COPY_H2D,
            [dst_handle |-> FirstHandle, dst_offset |-> t[2][1],
             size |-> t[2][2]],
            SizeofCopyH2D + SmallVal(t[2][2]))

CopyD2H(cn, t) ==
    Request(cn, t[1], IDM_GPU_COPY_D2H,
            [src_handle |-> FirstHandle, src_offset |-> t[2][1],
             size |-> t[2][2]],
            SizeofCopyD2H)

\* the well-formed messages the user zone may send
Requests(cn) ==
    {Request(cn, z, IDM_GPU_ALLOC, [size |-> AllocSize, flags |-> 0],
             SizeofAlloc) : z \in SrcZones}
    \cup {Request(cn, z, IDM_GPU_FREE, [handle |-> FirstHandle],
                  SizeofFree) : z \in SrcZones}
    \cup {CopyH2D(cn, t) : t \in CopyTargets \cup {<<USER_ZONE_ID, PastEnd>>}}
    \cup {CopyD2H(cn, t) : t \in CopyTargets}
    \cup {Request(cn, USER_ZONE_ID, IDM_GPU_SYNC, [flags |-> 0], SizeofSync),
          Request(cn, USER_ZONE_ID, IDM_GPU_LAUNCH_KERNEL, NoPayload, 0)}

\* messages with one header field off
Malformed(cn) ==
    LET m == Request(cn, USER_ZONE_ID, IDM_GPU_SYNC, [flags |-> 0],
                     SizeofSync)
    IN  {[m EXCEPT !.magic = 0],
         [m EXCEPT !.version = IDM_VERSION + 1],
         [m EXCEPT !.payload_len = IDM_MAX_PAYLOAD_SIZE + 1]}

\* send_and_wait: the user zone builds a message and calls idm_send; when
\* the send succeeds it goes on to wait for the response
ClientSend ==
    /\ client.pc = "idle"
    /\ nReqs < MaxReqs
    /\ LET cn == conn[USER_ZONE_ID]
       IN  \E msg \in Requests(cn) \cup Malformed(cn) :
             LET r == idm_send(cn, shm, sem, msg)
             IN  /\ shm' = r.shm
                 /\ sem' = r.sem
                 /\ client' = [client EXCEPT
                                 !.pc = IF r.ret = "0" THEN "wait"
                                        ELSE "idle",
                                 !.req_seq = msg.seq_num,
                                 !.send_ret = r.ret]
                 /\ conn' = [conn EXCEPT ![USER_ZONE_ID].next_seq = @ + 1]
    /\ nReqs' = nReqs + 1
    /\ UNCHANGED <<senderVars, receiverVars, logVars, tableVars,
                   tableCallVars, gpu, running, requests_handled, disp>>

\* the user zone stores a malformed message into the next slot of the ring
\* it transmits on, publishes it and posts the semaphore, without idm_send,
\* and waits for a response
PeerRawWrite ==
    /\ client.pc = "idle"
    /\ nReqs < MaxReqs
    /\ LET cn == conn[USER_ZONE_ID]
           ring == shm[tx_key(cn)]
       IN  /\ ~RingFull(ring.producer, ring.consumer)
           /\ \E msg \in Malformed(cn) :
                /\ shm' = [shm EXCEPT ![tx_key(cn)] =
                             RingPublish(RingWrite(ring, ring.producer, msg),
                                         ring.producer)]
                /\ sem' = [sem EXCEPT ![tx_sem(cn)] = @ + 1]
                /\ client' = [client EXCEPT !.pc = "wait",
                                            !.req_seq = msg.seq_num]
           /\ conn' = [conn EXCEPT ![USER_ZONE_ID].next_seq = @ + 1]
    /\ nReqs' = nReqs + 1
    /\ UNCHANGED <<senderVars, receiverVars, logVars, tableVars,
                   tableCallVars, gpu, running, requests_handled, disp>>

\* the response msg answers the request the user zone is waiting on
Answers(msg, req_seq) ==
    /\ msg.msg_type \in {IDM_RESPONSE_OK, IDM_RESPONSE_ERROR}
    /\ msg.payload.request_seq = req_seq

\* send_and_wait: one idm_recv of the polling loop that gets a message
ClientRecv ==
    /\ client.pc = "wait"
    /\ sem[rx_sem(conn[USER_ZONE_ID])] > 0
    /\ LET r == idm_recv(conn[USER_ZONE_ID], shm, sem, TRUE)
       IN  /\ shm' = r.shm
           /\ sem' = r.sem
           /\ client' = [client EXCEPT
                           !.pc = IF r.ret = "0"
                                     /\ Answers(r.msg, client.req_seq)
                                  THEN "idle" ELSE "wait",
                           !.recv_ret = r.ret,
                           !.msg = r.msg]
    /\ UNCHANGED <<conn, senderVars, receiverVars, logVars, tableVars,
                   tableCallVars, gpu, running, requests_handled, disp,
                   nReqs>>

\* send_and_wait: the ten polls have timed out.  The polls (10 s) are taken
\* to outlast a loop iteration of the driver: the user zone gives up only
\* when no wake is pending on either semaphore
ClientGiveUp ==
    /\ client.pc = "wait"
    /\ \A z \in Zones : sem[z] = 0
    /\ client' = [client EXCEPT !.pc = "idle", !.recv_ret = "-EAGAIN",
                                !.msg = NullMsg]
    /\ UNCHANGED <<transportVars, senderVars, receiverVars, logVars,
                   tableVars, tableCallVars, gpu, running, requests_handled,
                   disp, nReqs>>

Next ==
    /\ \/ DispatchIteration
       \/ ClientSend
       \/ PeerRawWrite
       \/ ClientRecv
       \/ ClientGiveUp
    /\ UNCHANGED <<buildVars, callVars, lifeVars, apiVars>>

Spec == Init /\ [][Next]_vars

(***************************************************************************)
(* SpecCall: the user zone's library (libvgpu.c).  An intercepted driver   *)
(* call builds a request and runs send_and_wait; the driver zone sends     *)
(* responses, matching or not, at any moment.                              *)
(***************************************************************************)
CUDA_ERROR_INVALID_VALUE == 1
CUDA_ERROR_OUT_OF_MEMORY == 2
CUDA_ERROR_INVALID_HANDLE == 400

\* the bound of the polling loop of send_and_wait
RecvAttempts == 10

\* the request of cuMemAlloc(&dptr, 1048576), built by idm_build_message
MemAllocRequest(cn) ==
    idm_build_message(cn, DRIVER_ZONE_ID, IDM_GPU_ALLOC,
                      [size |-> AllocSize, flags |-> 0], SizeofAlloc)

\* the request of cuMemcpyHtoD(dstDevice, srcHost, ByteCount), built by
\* hand: the sequence number is the constant 1
MemcpyHtoDRequest(dstDevice, ByteCount) ==
    Message(IDM_MAGIC, IDM_VERSION, IDM_GPU_COPY_H2D, USER_ZONE_ID,
            DRIVER_ZONE_ID, 1, SizeofCopyH2D + ByteCount,
            [dst_handle |-> dstDevice, dst_offset |-> u64(0),
             size |-> u64(ByteCount)])

\* the byte counts of the copies: one that fits a ring slot, one that does
\* not
ByteCounts == {16, 8192}

\* every response matches
MatchesAnything(payload, req_seq) == TRUE

\* ok->request_seq == req_seq, err->request_seq == req_seq
Matches(payload, req_seq) == payload.request_seq = req_seq

\* the switch on err->error_code
TranslateError(error_code) ==
    IF error_code = IDM_ERROR_OUT_OF_MEMORY THEN CUDA_ERROR_OUT_OF_MEMORY
    ELSE IF error_code = IDM_ERROR_INVALID_HANDLE
    THEN CUDA_ERROR_INVALID_HANDLE
    ELSE CUDA_ERROR_INVALID_VALUE

\* send_and_wait up to the loop: req_seq is read and the message sent.
\* has_out: handle_out is not NULL; handle: the caller's variable behind it
send_and_wait_send ==
    /\ call.pc = "idle"
    /\ nCalls < MaxCalls
    /\ nCalls' = nCalls + 1
    /\ LET cn == conn[USER_ZONE_ID]
       IN  \E b \in {[msg |-> MemAllocRequest(cn).msg,
                       conn |-> MemAllocRequest(cn).conn, has_out |-> TRUE]}
                    \cup {[msg |-> MemcpyHtoDRequest(FirstHandle, n),
                           conn |-> cn, has_out |-> FALSE] :
                             n \in ByteCounts} :
             LET r == idm_send(b.conn, shm, sem, b.msg)
                 frame == [pc |-> "recv", req |-> b.msg,
                           req_seq |-> b.msg.seq_num, i |-> 0,
                           has_out |-> b.has_out, handle |-> 0,
                           result |-> "none", from |-> NullMsg,
                           seen |-> <<>>]
             IN  /\ shm' = r.shm
                 /\ sem' = r.sem
                 /\ conn' = [conn EXCEPT ![USER_ZONE_ID] = b.conn]
                 /\ call' = IF r.ret # "0"
                            THEN [frame EXCEPT
                                    !.pc = "done",
                                    !.result = CUDA_ERROR_INVALID_VALUE]
                            ELSE frame
    /\ UNCHANGED nResps

\* what one pass of the loop body does with the result r of idm_recv
LoopBody(frame, r) ==
    IF r.ret # "0"
    THEN [frame EXCEPT !.i = @ + 1]
    ELSE IF r.msg.msg_type = IDM_RESPONSE_OK
            /\ Matches(r.msg.payload, frame.req_seq)
    THEN [frame EXCEPT !.pc = "done", !.result = CUDA_SUCCESS,
                       !.handle = IF frame.has_out
                                  THEN r.msg.payload.result_handle ELSE @,
                       !.from = r.msg]
    ELSE IF r.msg.msg_type = IDM_RESPONSE_ERROR
            /\ Matches(r.msg.payload, frame.req_seq)
    THEN [frame EXCEPT !.pc = "done",
                       !.result = TranslateError(r.msg.payload.error_code),
                       !.from = r.msg]
    ELSE [frame EXCEPT !.i = @ + 1, !.seen = Append(@, r.msg)]

\* one pass of the loop: idm_recv(&resp, 1000) and the tests on resp.  With
\* no wake pending the wait times out
send_and_wait_recv ==
    /\ call.pc = "recv"
    /\ call.i < RecvAttempts
    /\ \E mallocOk \in BOOLEAN :
         LET r == idm_recv(conn[USER_ZONE_ID], shm, sem, mallocOk)
         IN  /\ mallocOk \/ r.ret = "-ENOMEM"
             /\ shm' = r.shm
             /\ sem' = r.sem
             /\ call' = LoopBody(call, r)
    /\ UNCHANGED <<conn, nCalls, nResps>>

\* the loop has made its ten passes: lines 107-108
send_and_wait_timeout ==
    /\ call.pc = "recv"
    /\ call.i >= RecvAttempts
    /\ call' = [call EXCEPT !.pc = "done",
                            !.result = CUDA_ERROR_INVALID_VALUE]
    /\ UNCHANGED <<shm, sem, conn, nCalls, nResps>>

\* the caller takes the result
send_and_wait_return ==
    /\ call.pc = "done"
    /\ call' = NoFrame
    /\ UNCHANGED <<shm, sem, conn, nCalls, nResps>>

\* the sequence numbers the driver zone's responses name
RespSeqs == {1, 2}

\* the error codes of enum idm_error
ErrorCodes ==
    {IDM_ERROR_NONE, IDM_ERROR_INVALID_MESSAGE, IDM_ERROR_INVALID_HANDLE,
     IDM_ERROR_PERMISSION_DENIED, IDM_ERROR_OUT_OF_MEMORY,
     IDM_ERROR_INVALID_SIZE, IDM_ERROR_TIMEOUT, IDM_ERROR_CONNECTION_LOST,
     IDM_ERROR_CUDA_ERROR, IDM_ERROR_UNKNOWN}

\* what the driver zone may send: RESPONSE_OK with a handle that tells the
\* sequence numbers apart, and RESPONSE_ERROR for the second sequence
\* number; as its first message (n = 0) also RESPONSE_ERROR with any code
\* for the first sequence number
DriverResponses(n) ==
    {ResponseOk(USER_ZONE_ID, q, 6 + q) : q \in RespSeqs}
    \cup {ResponseError(USER_ZONE_ID, 2, IDM_ERROR_INVALID_HANDLE, 0, "")}
    \cup (IF n = 0
          THEN {ResponseError(USER_ZONE_ID, 1, c, 0, "") : c \in ErrorCodes}
          ELSE {})

\* the driver zone sends a response (send_response_ok / _error), or a
\* message that is not a response
DriverSends ==
    /\ nResps < MaxResps
    /\ nResps' = nResps + 1
    /\ LET cn == conn[DRIVER_ZONE_ID]
       IN  \/ \E resp \in DriverResponses(nResps) :
                LET s == send_response(cn, shm, sem, resp, TRUE)
                IN  /\ shm' = s.shm
                    /\ sem' = s.sem
                    /\ conn' = [conn EXCEPT ![DRIVER_ZONE_ID] = s.conn]
           \/ LET b == idm_build_message(cn, USER_ZONE_ID, IDM_GPU_SYNC,
                                         [flags |-> 0], SizeofSync)
                  r == idm_send(b.conn, shm, sem, b.msg)
              IN  /\ shm' = r.shm
                  /\ sem' = r.sem
                  /\ conn' = [conn EXCEPT ![DRIVER_ZONE_ID] = b.conn]
    /\ UNCHANGED <<call, nCalls>>

CallNext ==
    /\ \/ send_and_wait_send
       \/ send_and_wait_recv
       \/ send_and_wait_timeout
       \/ send_and_wait_return
       \/ DriverSends
    /\ UNCHANGED <<senderVars, receiverVars, logVars, tableVars,
                   tableCallVars, driverVars, buildVars, lifeVars, apiVars>>

SpecCall == Init /\ [][CallNext]_vars

(***************************************************************************)
(* SpecLife: run_server from the start of its loop to its return.  A       *)
(* SIGINT or SIGTERM may arrive at any moment; the loop thread is always   *)
(* scheduled and idm_recv waits at most its timeout.                       *)
(***************************************************************************)
\* the loop never ends
LoopContinuesAlways(r) == TRUE

\* while (running)
LoopContinues(r) == r

\* idm_cleanup: the connection is freed, global_conn = NULL
idm_cleanup(cn) == NoConn

\* SIGINT / SIGTERM is delivered
signal_handler ==
    /\ srv # "stopped"
    /\ running
    /\ running' = FALSE
    /\ UNCHANGED <<transportVars, senderVars, receiverVars, logVars,
                   tableVars, tableCallVars, gpu, requests_handled, disp,
                   nReqs, client, srv>>

\* the test of the while loop; when it fails, the lines after the loop:
\* handle_table_cleanup, idm_cleanup, return
run_server_test ==
    /\ srv = "loop"
    /\ IF LoopContinues(running)
       THEN /\ srv' = "body"
            /\ UNCHANGED <<conn, tableVars>>
       ELSE /\ srv' = "stopped"
            /\ SetTable(handle_table_cleanup(Table))
            /\ conn' = [conn EXCEPT ![DRIVER_ZONE_ID] = idm_cleanup(@)]
    /\ UNCHANGED <<shm, sem, senderVars, receiverVars, logVars,
                   tableCallVars, gpu, running, requests_handled, disp,
                   nReqs, client>>

\* the body of the while loop
run_server_body ==
    /\ srv = "body"
    /\ LoopIteration
    /\ srv' = "loop"
    /\ UNCHANGED running

\* the requests the user zone sends while the daemon runs and stops
LifeRequests(cn) ==
    {Request(cn, USER_ZONE_ID, IDM_GPU_ALLOC,
             [size |-> AllocSize, flags |-> 0], SizeofAlloc),
     Request(cn, USER_ZONE_ID, IDM_GPU_FREE,
             [handle |-> FirstHandle], SizeofFree),
     Request(cn, USER_ZONE_ID, IDM_GPU_SYNC, [flags |-> 0], SizeofSync)}

\* the user zone sends a request
PeerRequest ==
    /\ nReqs < MaxLifeReqs
    /\ nReqs' = nReqs + 1
    /\ LET cn == conn[USER_ZONE_ID]
       IN  \E msg \in LifeRequests(cn) :
             LET r == idm_send(cn, shm, sem, msg)
             IN  /\ shm' = r.shm
                 /\ sem' = r.sem
                 /\ conn' = [conn EXCEPT ![USER_ZONE_ID].next_seq = @ + 1]
    /\ UNCHANGED <<senderVars, receiverVars, logVars, tableVars,
                   tableCallVars, gpu, running, requests_handled, disp,
                   client, srv>>

\* the steps of the daemon's main thread
ServerStep ==
    /\ run_server_test \/ run_server_body
    /\ UNCHANGED <<buildVars, callVars, apiVars>>

LifeNext ==
    \/ ServerStep
    \/ /\ signal_handler \/ PeerRequest
       /\ UNCHANGED <<buildVars, callVars, apiVars>>

\* the main thread can take a step: run_server has not returned.  At the
\* test of the loop it always can; in the body it can when the iteration
\* has an outcome, which is what ENABLED LoopIteration says
ServerStepEnabled ==
    /\ srv # "stopped"
    /\ srv = "body" =>
         LET cn == conn[DRIVER_ZONE_ID]
         IN  IF sem[rx_sem(cn)] = 0
             THEN idm_recv(cn, shm, sem, TRUE).ret = "-EAGAIN"
             ELSE \E env \in Envs :
                    /\ nFaults + Failures(env) <= MaxDriverFaults
                    /\ Failures(env)
                         = Faulted(Iteration(cn, shm, sem, Table, gpu,
                                             env).disp)

\* the main thread is always scheduled, and sem_timedwait returns after at
\* most its timeout: weak fairness of ServerStep, WF_vars(ServerStep),
\* written out with ServerStepEnabled for ENABLED <<ServerStep>>_vars
ServerFairness ==
    \/ []<>(~ServerStepEnabled)
    \/ []<><<ServerStep>>_vars

SpecLife == Init /\ [][LifeNext]_vars /\ ServerFairness

(***************************************************************************)
(* SpecConn: the life cycle of the connections.  No process is attached    *)
(* at the start; each zone's process calls idm_init, idm_build_message,    *)
(* idm_send, idm_recv (timeout 0) and idm_cleanup in any order, each as    *)
(* one call.  The driver zone attaches as server, the user zone as client  *)
(* (main.c:183, libvgpu.c:130).  The shared segments and the named         *)
(* semaphores outlive the connections.                                     *)
(***************************************************************************)
\* what the environment does to a call of idm_init: nothing, calloc
\* fails, shmget/shmat fails, sem_open fails
InitOutcomes == {"ok", "calloc_fails", "shm_fails", "sem_fails"}

\* init_shm that zeroes the rings whatever the role
init_shm_zeroes_always(cn, sh, outcome) ==
    IF outcome = "shm_fails" THEN [ret |-> "-1", shm |-> sh]
    ELSE [ret |-> IF outcome = "sem_fails" THEN "-1" ELSE "0",
          shm |-> [sh EXCEPT ![tx_key(cn)] = EmptyRing,
                             ![rx_key(cn)] = EmptyRing]]

\* init_shm: attach both segments, zero both rings if server, open the
\* semaphores (an existing semaphore keeps its value)
init_shm(cn, sh, outcome) ==
    IF outcome = "shm_fails" THEN [ret |-> "-1", shm |-> sh]
    ELSE [ret |-> IF outcome = "sem_fails" THEN "-1" ELSE "0",
          shm |-> IF cn.is_server
                  THEN [sh EXCEPT ![tx_key(cn)] = EmptyRing,
                                  ![rx_key(cn)] = EmptyRing]
                  ELSE sh]

\* idm_init that does not test global_conn
idm_init_again(gc, sh, local_zone_id, remote_zone_id, is_server, outcome) ==
    IF outcome = "calloc_fails"
    THEN [ret |-> "-ENOMEM", conn |-> gc, shm |-> sh]
    ELSE LET cn == idm_init(local_zone_id, remote_zone_id, is_server)
             r == init_shm(cn, sh, outcome)
         IN  IF r.ret # "0" THEN [ret |-> "-1", conn |-> gc, shm |-> r.shm]
             ELSE [ret |-> "0", conn |-> cn, shm |-> r.shm]

\* the call idm_init(local_zone_id, remote_zone_id, is_server) made with
\* global_conn = gc: return value, global_conn and shared memory after it
idm_init_call(gc, sh, local_zone_id, remote_zone_id, is_server, outcome) ==
    IF gc # NoConn THEN [ret |-> "-EALREADY", conn |-> gc, shm |-> sh]
    ELSE IF outcome = "calloc_fails"
    THEN [ret |-> "-ENOMEM", conn |-> gc, shm |-> sh]
    ELSE LET cn == idm_init(local_zone_id, remote_zone_id, is_server)
             r == init_shm(cn, sh, outcome)
         IN  IF r.ret # "0" THEN [ret |-> "-1", conn |-> gc, shm |-> r.shm]
             ELSE [ret |-> "0", conn |-> cn, shm |-> r.shm]

\* the call idm_build_message made with global_conn = cn
idm_build_message_call(cn, dst_zone, msg_type, payload, len, mallocOk) ==
    IF cn = NoConn \/ ~mallocOk THEN [msg |-> NullMsg, conn |-> cn]
    ELSE idm_build_message(cn, dst_zone, msg_type, payload, len)

PeerOf(z) == IF z = DRIVER_ZONE_ID THEN USER_ZONE_ID ELSE DRIVER_ZONE_ID

\* a message the application of zone z fills in by hand, as test_client.c
\* does; its seq_num is the number of the call
ByHand(z) ==
    Message(IDM_MAGIC, IDM_VERSION, IDM_GPU_SYNC, z, PeerOf(z),
            nApiCalls + 1, SizeofSync, [flags |-> 0])

\* messages in the receive ring of connection cn
PendingFor(cn) ==
    LET ring == shm[rx_key(cn)]
    IN  ValW(SubW(ring.producer, ring.consumer))

ApiCalled(z, fn, ret, msg) ==
    /\ nApiCalls < MaxApiCalls
    /\ nApiCalls' = nApiCalls + 1
    /\ api' = [zone |-> z, fn |-> fn, ret |-> ret, msg |-> msg]

\* the process of zone z calls idm_init
ApiInit(z) ==
    \E outcome \in InitOutcomes :
        /\ outcome # "ok" => nFaults < MaxFaults
        /\ nFaults' = IF outcome = "ok" THEN nFaults ELSE nFaults + 1
        /\ LET r == idm_init_call(conn[z], shm, z, PeerOf(z),
                                  z = DRIVER_ZONE_ID, outcome)
           IN  /\ conn' = [conn EXCEPT ![z] = r.conn]
               /\ shm' = r.shm
               /\ ApiCalled(z, "idm_init", r.ret, NullMsg)
               /\ pendingAtInit' =
                     IF r.ret = "0"
                     THEN [pendingAtInit EXCEPT ![z] = PendingFor(r.conn)]
                     ELSE pendingAtInit
               \* the history of the direction driver -> user starts
               \* again when the rings are zeroed
               /\ IF r.shm # shm
                  THEN sentLog' = <<>> /\ recvLog' = <<>>
                  ELSE UNCHANGED logVars
        /\ UNCHANGED <<sem, senderVars, rpc, rloc, rret, msg_out>>

\* the process of zone z calls idm_cleanup
ApiCleanup(z) ==
    /\ conn' = [conn EXCEPT ![z] = idm_cleanup(@)]
    /\ ApiCalled(z, "idm_cleanup", "void", NullMsg)
    /\ UNCHANGED <<shm, sem, senderVars, receiverVars, logVars,
                   pendingAtInit>>

\* the process of zone z calls idm_build_message
ApiBuild(z) ==
    \E mallocOk \in BOOLEAN :
        /\ ~mallocOk => nFaults < MaxFaults
        /\ nFaults' = IF mallocOk THEN nFaults ELSE nFaults + 1
        /\ LET b == idm_build_message_call(conn[z], PeerOf(z), IDM_GPU_SYNC,
                                           [flags |-> 0], SizeofSync,
                                           mallocOk)
           IN  /\ conn' = [conn EXCEPT ![z] = b.conn]
               /\ ApiCalled(z, "idm_build_message",
                            IF b.msg = NullMsg THEN "NULL" ELSE "msg", b.msg)
        /\ UNCHANGED <<shm, sem, senderVars, rpc, rloc, rret, msg_out,
                       logVars, pendingAtInit>>

\* the process of zone z calls idm_send on a message filled in by hand
ApiSend(z) ==
    LET msg == ByHand(z)
        r == idm_send(conn[z], shm, sem, msg)
    IN  /\ shm' = r.shm
        /\ sem' = r.sem
        /\ ApiCalled(z, "idm_send", r.ret, msg)
        /\ sentLog' = IF z = DRIVER_ZONE_ID /\ r.ret = "0"
                      THEN Append(sentLog, msg) ELSE sentLog
        /\ UNCHANGED <<conn, senderVars, receiverVars, recvLog,
                       pendingAtInit>>

\* the process of zone z calls idm_recv with timeout 0
ApiRecv(z) ==
    \E mallocOk \in BOOLEAN :
        LET r == idm_recv(conn[z], shm, sem, mallocOk)
        IN  /\ mallocOk \/ (r.ret = "-ENOMEM" /\ nFaults < MaxFaults)
            /\ nFaults' = IF mallocOk THEN nFaults ELSE nFaults + 1
            /\ shm' = r.shm
            /\ sem' = r.sem
            /\ ApiCalled(z, "idm_recv", r.ret, r.msg)
            /\ recvLog' = IF z = USER_ZONE_ID /\ r.ret = "0"
                          THEN Append(recvLog, r.msg) ELSE recvLog
            /\ UNCHANGED <<conn, senderVars, rpc, rloc, rret, msg_out,
                           sentLog, pendingAtInit>>

ConnInit ==
    /\ InitButConn
    /\ conn = [z \in Zones |-> NoConn]
    /\ sem = [z \in Zones |-> 0]

ConnNext ==
    /\ \E z \in Zones :
          \/ ApiInit(z)
          \/ ApiCleanup(z)
          \/ ApiBuild(z)
          \/ ApiSend(z)
          \/ ApiRecv(z)
    /\ UNCHANGED <<tableVars, tableCallVars, driverVars, buildVars,
                   callVars, lifeVars>>

SpecConn == ConnInit /\ [][ConnNext]_vars

(***************************************************************************)
(* SpecThreads: two threads of the user zone's process call idm_send on    *)
(* the one connection of the process, each call advancing one access to    *)
(* the shared ring at a time.  idm_send takes no lock (conn_lock is        *)
(* initialised and destroyed, never locked); no receiver runs.             *)
(***************************************************************************)
\* the message a thread sends with its call, the n-th call made
ThreadMsg(n) ==
    Message(IDM_MAGIC, IDM_VERSION, IDM_GPU_SYNC, USER_ZONE_ID,
            DRIVER_ZONE_ID, n, SizeofSync, [flags |-> 0])

\* idm_send returns ret to thread t
ThreadReturn(t, msg, prod, ret) ==
    built' = Append(built, [thread |-> t, msg |-> msg, prod |-> prod,
                            ret |-> ret])

\* lines 326-354: the checks, with the loads of producer and consumer
thread_send_enter(t) ==
    /\ bpc[t] = "idle"
    /\ nBuilds < MaxBuilds
    /\ nBuilds' = nBuilds + 1
    /\ LET cn == conn[USER_ZONE_ID]
           ring == shm[tx_key(cn)]
           msg == ThreadMsg(nBuilds + 1)
           chk == SendCheck(cn, ring, msg)
       IN  IF chk # "0"
           THEN /\ ThreadReturn(t, msg, ring.producer, chk)
                /\ UNCHANGED <<bpc, bloc>>
           ELSE /\ bpc' = [bpc EXCEPT ![t] = "copy"]
                /\ bloc' = [bloc EXCEPT ![t] =
                              [msg |-> msg, prod |-> ring.producer]]
                /\ UNCHANGED built
    /\ UNCHANGED <<shm, sem>>

\* line 358
thread_send_copy(t) ==
    /\ bpc[t] = "copy"
    /\ shm' = [shm EXCEPT ![tx_key(conn[USER_ZONE_ID])] =
                  RingWrite(@, bloc[t].prod, bloc[t].msg)]
    /\ bpc' = [bpc EXCEPT ![t] = "publish"]
    /\ UNCHANGED <<sem, bloc, built, nBuilds>>

\* lines 361-364
thread_send_publish(t) ==
    /\ bpc[t] = "publish"
    /\ shm' = [shm EXCEPT ![tx_key(conn[USER_ZONE_ID])] =
                  RingPublish(@, bloc[t].prod)]
    /\ bpc' = [bpc EXCEPT ![t] = "notify"]
    /\ UNCHANGED <<sem, bloc, built, nBuilds>>

\* line 370, and the return of 0
thread_send_notify(t) ==
    /\ bpc[t] = "notify"
    /\ sem' = [sem EXCEPT ![tx_sem(conn[USER_ZONE_ID])] = @ + 1]
    /\ ThreadReturn(t, bloc[t].msg, bloc[t].prod, "0")
    /\ bpc' = [bpc EXCEPT ![t] = "idle"]
    /\ bloc' = [bloc EXCEPT ![t] = NoLocals]
    /\ UNCHANGED <<shm, nBuilds>>

ThreadsNext ==
    /\ \E t \in Threads :
         \/ thread_send_enter(t)
         \/ thread_send_copy(t)
         \/ thread_send_publish(t)
         \/ thread_send_notify(t)
    /\ UNCHANGED <<conn, seq_lock, senderVars, receiverVars, logVars,
                   tableVars, tableCallVars, driverVars, callVars, lifeVars,
                   apiVars>>

SpecThreads == Init /\ [][ThreadsNext]_vars

(***************************************************************************)
(* SpecSeq: an application of the user zone makes driver calls through     *)
(* libvgpu one after the other, each running send_and_wait, while the      *)
(* daemon of the driver zone serves the requests it finds, at its own      *)
(* pace.  sentLog: the requests sent, each with the ring index it was      *)
(* published at; recvLog: the requests served, each with the header        *)
(* seq_num of the response sent for it; built: the calls that returned.    *)
(***************************************************************************)
\* an iteration in which nothing fails
NoFailure ==
    [recvOk |-> TRUE, res |-> CUDA_SUCCESS, res2 |-> CUDA_SUCCESS,
     mallocOk |-> TRUE, buildOk |-> TRUE]

\* cuMemAlloc or cuMemcpyHtoD is called: the request is built and
\* send_and_wait sends it
lib_call_send ==
    /\ call.pc = "idle"
    /\ nCalls < MaxSeqCalls
    /\ nCalls' = nCalls + 1
    /\ LET cn == conn[USER_ZONE_ID]
           pos == ValW(shm[tx_key(cn)].producer)
       IN  \E b \in {[msg |-> MemAllocRequest(cn).msg,
                       conn |-> MemAllocRequest(cn).conn, has_out |-> TRUE],
                      [msg |-> MemcpyHtoDRequest(FirstHandle, 16),
                       conn |-> cn, has_out |-> FALSE]} :
             LET r == idm_send(b.conn, shm, sem, b.msg)
                 frame == [pc |-> "recv", req |-> b.msg,
                           req_seq |-> b.msg.seq_num, i |-> 0,
                           has_out |-> b.has_out, handle |-> 0,
                           result |-> "none", from |-> NullMsg,
                           seen |-> <<>>, pos |-> pos]
             IN  /\ shm' = r.shm
                 /\ sem' = r.sem
                 /\ conn' = [conn EXCEPT ![USER_ZONE_ID] = b.conn]
                 /\ call' = IF r.ret # "0"
                            THEN [frame EXCEPT
                                    !.pc = "done",
                                    !.result = CUDA_ERROR_INVALID_VALUE]
                            ELSE frame
                 /\ sentLog' = IF r.ret = "0"
                               THEN Append(sentLog,
                                           [pos |-> pos, msg |-> b.msg])
                               ELSE sentLog
    /\ UNCHANGED <<nResps, built, recvLog, tableVars, gpu,
                   requests_handled, disp, nFaults>>

\* send_and_wait returns to the application
lib_call_return ==
    /\ call.pc = "done"
    /\ built' = Append(built, [pos |-> call.pos, req |-> call.req,
                               result |-> call.result, from |-> call.from])
    /\ call' = NoFrame
    /\ UNCHANGED <<shm, sem, conn, nCalls, nResps, logVars, tableVars, gpu,
                   requests_handled, disp, nFaults>>

\* the daemon runs one iteration of its loop on a pending request
daemon_serves ==
    LET cn == conn[DRIVER_ZONE_ID]
        it == Iteration(cn, shm, sem, Table, gpu, NoFailure)
    IN  /\ sem[rx_sem(cn)] > 0
        /\ shm' = it.shm
        /\ sem' = it.sem
        /\ conn' = [conn EXCEPT ![DRIVER_ZONE_ID] = it.conn]
        /\ SetTable(it.table)
        /\ gpu' = it.gpu
        /\ requests_handled' = requests_handled + it.handled
        /\ disp' = it.disp
        /\ recvLog' = IF it.disp.sent = "0"
                      THEN Append(recvLog,
                                  [pos |-> ValW(shm[rx_key(cn)].consumer),
                                   resp_seq |-> cn.next_seq])
                      ELSE recvLog
        /\ UNCHANGED <<call, nCalls, nResps, built, sentLog, nFaults>>

SeqNext ==
    /\ \/ lib_call_send
       \/ /\ \/ send_and_wait_recv
             \/ send_and_wait_timeout
          /\ UNCHANGED <<built, logVars, tableVars, gpu, requests_handled,
                         disp, nFaults>>
       \/ lib_call_return
       \/ daemon_serves
    /\ UNCHANGED <<senderVars, rpc, rloc, rret, msg_out, tableCallVars,
                   running, nReqs, client, bpc, bloc, seq_lock, nBuilds,
                   lifeVars, apiVars>>

SpecSeq == Init /\ [][SeqNext]_vars

(***************************************************************************)
(* SpecPipe: a client of the user zone pipelines requests: it sends        *)
(* GPU_ALLOC requests without waiting for the response of one before it    *)
(* sends the next, and drains its receive ring when it chooses; the        *)
(* daemon serves the requests at its own pace.  built: the responses the   *)
(* client has received.                                                    *)
(***************************************************************************)
\* the client sends the next request
pipe_send ==
    /\ nReqs < MaxPipeReqs
    /\ nReqs' = nReqs + 1
    /\ LET b == MemAllocRequest(conn[USER_ZONE_ID])
           r == idm_send(b.conn, shm, sem, b.msg)
       IN  /\ shm' = r.shm
           /\ sem' = r.sem
           /\ conn' = [conn EXCEPT ![USER_ZONE_ID] = b.conn]
           /\ sentLog' = IF r.ret = "0" THEN Append(sentLog, b.msg)
                         ELSE sentLog
    /\ UNCHANGED <<built, recvLog, tableVars, gpu, requests_handled, disp>>

\* the client takes a response out of its receive ring
pipe_drain ==
    /\ sem[USER_ZONE_ID] > 0
    /\ LET r == idm_recv(conn[USER_ZONE_ID], shm, sem, TRUE)
       IN  /\ shm' = r.shm
           /\ sem' = r.sem
           /\ built' = IF r.ret = "0" THEN Append(built, r.msg) ELSE built
    /\ UNCHANGED <<conn, nReqs, logVars, tableVars, gpu, requests_handled,
                   disp>>

PipeNext ==
    /\ \/ pipe_send
       \/ pipe_drain
       \/ daemon_serves /\ UNCHANGED nReqs
    /\ UNCHANGED <<senderVars, receiverVars, tableCallVars, running, client,
                   bpc, bloc, seq_lock, nBuilds, callVars, lifeVars,
                   apiVars>>

SpecPipe == Init /\ [][PipeNext]_vars

(***************************************************************************)
(* Claims on the handle table (SpecTable).                                 *)
(***************************************************************************)
\* C9: at every table the calls reach, inserting (z, p, s) with p non-null
\* and removing the returned handle as z returns p; for every live handle,
\* a remove by its owner returns the pointer it was inserted with, and a
\* lookup or remove by any other zone returns null and leaves the table
\* (entries, owners, sizes, pointers, counts) as it was
C9_RoundTripAndUnchanged ==
    /\ \A z \in TableZones, p \in TablePtrs \ {NULL}, sz \in TableSizes :
         LET ins == handle_table_insert(Table, z, p, sz, TRUE)
         IN  /\ ins.ret # 0
             /\ handle_table_remove(ins.table, z, ins.ret).ptr = p
             /\ \A z2 \in TableZones \ {z} :
                  /\ handle_table_lookup(ins.table, z2, ins.ret).ptr = NULL
                  /\ handle_table_remove(ins.table, z2, ins.ret).ptr = NULL
                  /\ handle_table_remove(ins.table, z2, ins.ret).table
                       = ins.table
    /\ \A h \in DOMAIN issued :
         /\ handle_table_remove(Table, issued[h].zone_id, h).ptr
              = issued[h].ptr
         /\ \A z2 \in TableZones \ {issued[h].zone_id} :
              /\ handle_table_lookup(Table, z2, h).ptr = NULL
              /\ handle_table_remove(Table, z2, h).ptr = NULL
              /\ handle_table_remove(Table, z2, h).table = Table

\* a zone other than the owner has just tried to remove a live handle, after
\* which the owner can still look it up
C9_Witness ==
    /\ tcall.op = "remove"
    /\ tcall.ptr = NULL
    /\ tcall.handle \in DOMAIN issued
    /\ issued[tcall.handle].zone_id # tcall.zone
    /\ issued[tcall.handle].ptr # NULL
    /\ handle_table_lookup(Table, issued[tcall.handle].zone_id,
                           tcall.handle).ptr = issued[tcall.handle].ptr

\* the sum of the sizes of a set of entries, as an integer
RECURSIVE SumSizes(_)
SumSizes(E) ==
    IF E = {} THEN 0
    ELSE LET e == CHOOSE x \in E : TRUE
         IN  ValW(e.size) + SumSizes(E \ {e})

\* C11: after any sequence of insert, remove, cleanup (and lookup, stats,
\* init) calls the statistics equal the table contents: total_handles is
\* the number of live entries and total_memory the sum of their sizes, and
\* handle_table_stats reports these two; an insert of size n raises them by
\* 1 and n and removing the returned handle restores both
C11_StatsMatchTable ==
    /\ total_handles = Cardinality(TableEntries(Table))
    /\ total_memory = u64(SumSizes(TableEntries(Table)))
    /\ handle_table_stats(Table)
         = [total_handles |-> Cardinality(TableEntries(Table)),
            total_memory |-> u64(SumSizes(TableEntries(Table)))]
    /\ \A z \in TableZones, p \in TablePtrs \ {NULL}, sz \in TableSizes :
         LET ins == handle_table_insert(Table, z, p, sz, TRUE)
             rem == handle_table_remove(ins.table, z, ins.ret)
         IN  /\ ins.table.total_handles = total_handles + 1
             /\ ins.table.total_memory = AddW(total_memory, sz)
             /\ rem.ptr = p
             /\ handle_table_stats(rem.table) = handle_table_stats(Table)

\* an entry has just been removed by its owner while another one stays
\* live, the statistics counting the one that stays
C11_Witness ==
    /\ tcall.op = "remove"
    /\ tcall.ptr # NULL
    /\ total_handles = 1
    /\ \E e \in TableEntries(Table) : total_memory = e.size

\* C12: across any sequence of handle_table_init, handle_table_insert,
\* handle_table_remove and handle_table_cleanup calls in one process, every
\* handle insert returns is strictly greater than every handle it returned
\* earlier, so no handle value is issued twice
C12_HandlesNeverReissued ==
    \A i, j \in DOMAIN returned : i < j => returned[i] < returned[j]

(***************************************************************************)
(* Claims on the dispatcher (Spec).  They are stated on the iteration the  *)
(* driver is about to run: Run(env) is what the loop of run_server does    *)
(* from the current state when the environment chooses env.                *)
(***************************************************************************)
Driver == conn[DRIVER_ZONE_ID]

\* the ring the driver receives on and the ring it responds on
RxRing == shm[rx_key(Driver)]
TxRing == shm[tx_key(Driver)]

\* a wake is pending and the ring holds a message: the next iteration reads
\* the slot at the consumer position
Pending ==
    /\ sem[rx_sem(Driver)] > 0
    /\ RxRing.producer # RxRing.consumer

\* the slot at the consumer position
HeadSlot == RxRing.entries[ModSmall(RxRing.consumer, 32)]

Run(env) == Iteration(Driver, shm, sem, Table, gpu, env)

\* the header passes the three tests of validity, spelled out
WellFormed(msg) ==
    /\ msg.magic = 1229212928
    /\ msg.version = 256
    /\ msg.payload_len <= 4194304

\* C4: a message with a wrong magic, a wrong version or a payload_len above
\* the maximum is rejected on both paths: idm_send returns -EINVAL and
\* leaves the ring and the semaphore as they were; idm_recv finding it at
\* the consumer position returns -EINVAL and hands no message out; every
\* message an idm_recv has delivered passes the three tests
C4_HeaderValidity ==
    /\ \A msg \in Malformed(conn[USER_ZONE_ID]) :
         LET r == idm_send(conn[USER_ZONE_ID], shm, sem, msg)
         IN  r.ret = "-EINVAL" /\ r.shm = shm /\ r.sem = sem
    /\ (Pending /\ ~WellFormed(HeadSlot)) =>
         \A ok \in BOOLEAN :
           LET r == idm_recv(Driver, shm, sem, ok)
           IN  r.ret = "-EINVAL" /\ r.msg = NullMsg
    /\ disp.ret = "0" => WellFormed(disp.msg)
    /\ client.recv_ret = "0" => WellFormed(client.msg)

\* the user zone's idm_send has rejected a malformed message, and the
\* driver's idm_recv has rejected a malformed slot written into the ring
C4_Witness ==
    /\ client.send_ret = "-EINVAL"
    /\ disp.ret = "-EINVAL"
    /\ disp.msg = NullMsg

\* the request at the consumer position is one the dispatcher has a handler
\* for
Handled(msg) ==
    msg.msg_type \in {IDM_GPU_ALLOC, IDM_GPU_FREE, IDM_GPU_COPY_H2D,
                      IDM_GPU_COPY_D2H, IDM_GPU_SYNC}

\* C5: when the slot at the consumer position has an invalid header, the
\* iteration gets -EINVAL from idm_recv, the consumer index has advanced by
\* exactly 1, no message is delivered, no backend call is made, no response
\* is sent (the response ring is untouched), the table is untouched and the
\* connection stays connected; and whenever a valid request of a handled
\* type is at the consumer position (after any number of dropped slots) an
\* iteration in which no allocation fails receives exactly that message and
\* places a response carrying its sequence number in the response ring
C5_InvalidSlotDropped ==
    /\ (Pending /\ ~WellFormed(HeadSlot)) =>
         \A env \in Envs :
           LET it == Run(env)
           IN  /\ it.disp.ret = "-EINVAL"
               /\ it.disp.msg = NullMsg
               /\ it.shm[rx_key(Driver)].consumer = IncW(RxRing.consumer)
               /\ it.shm[rx_key(Driver)].producer = RxRing.producer
               /\ it.disp.calls = <<>>
               /\ it.disp.responses = <<>>
               /\ it.shm[tx_key(Driver)] = TxRing
               /\ it.sem[tx_sem(Driver)] = sem[tx_sem(Driver)]
               /\ it.table = Table /\ it.gpu = gpu
               /\ it.conn = Driver /\ it.conn.connected
    /\ (Pending /\ WellFormed(HeadSlot) /\ Handled(HeadSlot)) =>
         \A env \in {e \in Envs : e.recvOk /\ e.buildOk} :
           LET it == Run(env)
               reply == it.shm[tx_key(Driver)].entries[
                           ModSmall(TxRing.producer, 32)]
           IN  /\ it.disp.ret = "0"
               /\ it.disp.msg = HeadSlot
               /\ it.shm[rx_key(Driver)].consumer = IncW(RxRing.consumer)
               /\ Len(it.disp.responses) = 1
               /\ it.disp.sent = "0"
               /\ it.shm[tx_key(Driver)].producer = IncW(TxRing.producer)
               /\ reply.msg_type \in {IDM_RESPONSE_OK, IDM_RESPONSE_ERROR}
               /\ reply.payload.request_seq = HeadSlot.seq_num
               /\ reply.dst_zone = HeadSlot.src_zone

\* an invalid slot has been dropped (the driver handled nothing for it) and
\* the request placed after it has been received and answered
C5_Witness ==
    /\ requests_handled = 1
    /\ RxRing.consumer = u32(2)
    /\ ~WellFormed(RxRing.entries[0])
    /\ RxRing.entries[0] # ZeroMsg
    /\ disp.ret = "0"
    /\ disp.msg = RxRing.entries[1]
    /\ disp.sent = "0"
    /\ TxRing.producer = u32(1)
    /\ Driver.connected

\* the zone that writes the ring the driver receives on: whatever src_zone
\* says, every message in that ring was sent by this zone
ActualSender == Driver.remote_zone_id

\* the backend calls that free, write or read an allocation
TouchCalls == {"cuMemFree", "cuMemcpyHtoD", "cuMemcpyDtoH"}

\* the entry of table T that holds device pointer ptr, as a set
EntriesAt(T, ptr) == {e \in TableEntries(T) : e.ptr = ptr}

\* C6: whatever the peer zone wrote in the message at the consumer
\* position, every backend free or copy of the iteration is on an
\* allocation whose owner in the handle table is the zone that sent the
\* message
C6_OwnerOnly ==
    Pending =>
      \A env \in Envs :
        LET calls == Run(env).disp.calls
        IN  \A i \in DOMAIN calls :
              calls[i].fn \in TouchCalls =>
                \A e \in EntriesAt(Table, calls[i].ptr) :
                  e.zone_id = ActualSender

\* the handle a FREE, COPY_H2D or COPY_D2H request names
NamedHandle(msg) ==
    IF msg.msg_type = IDM_GPU_FREE THEN msg.payload.handle
    ELSE IF msg.msg_type = IDM_GPU_COPY_H2D THEN msg.payload.dst_handle
    ELSE msg.payload.src_handle

NamesHandle(msg) ==
    /\ WellFormed(msg)
    /\ msg.msg_type \in {IDM_GPU_FREE, IDM_GPU_COPY_H2D, IDM_GPU_COPY_D2H}

\* the entries of T with handle h (at most one)
EntriesOf(T, h) == {e \in TableEntries(T) : e.handle = h}

\* msg names a handle that is not in T, or one whose owner is not the
\* zone in src_zone
NotOwned(T, msg) ==
    \A e \in EntriesOf(T, NamedHandle(msg)) : e.zone_id # msg.src_zone

\* the text each handler puts in its INVALID_HANDLE response
InvalidHandleText(msg) ==
    IF msg.msg_type = IDM_GPU_FREE
    THEN "Invalid handle or permission denied"
    ELSE "Invalid handle"

\* C7: when the request at the consumer position is a FREE, COPY_H2D or
\* COPY_D2H naming a handle that is absent or owned by a zone other than
\* its src_zone, the iteration that receives it hands exactly one response
\* to idm_send, a RESPONSE_ERROR with INVALID_HANDLE addressed to src_zone
\* with the request's sequence number, makes no backend call and leaves the
\* handle table (entries, total_handles, total_memory) and the device
\* allocations as they were; when the response is built it is the message
\* placed in the response ring
C7_InvalidHandle ==
    (Pending /\ NamesHandle(HeadSlot) /\ NotOwned(Table, HeadSlot)) =>
      \A env \in {e \in Envs : e.recvOk} :
        LET it == Run(env)
            reply == it.shm[tx_key(Driver)].entries[
                        ModSmall(TxRing.producer, 32)]
        IN  /\ it.disp.msg = HeadSlot
            /\ it.disp.responses =
                 <<ResponseError(HeadSlot.src_zone, HeadSlot.seq_num,
                                 IDM_ERROR_INVALID_HANDLE, 0,
                                 InvalidHandleText(HeadSlot))>>
            /\ it.disp.calls = <<>>
            /\ it.table = Table
            /\ TableEntries(it.table) = TableEntries(Table)
            /\ it.gpu = gpu
            /\ env.buildOk =>
                 /\ it.disp.sent = "0"
                 /\ reply.msg_type = IDM_RESPONSE_ERROR
                 /\ reply.payload.error_code = IDM_ERROR_INVALID_HANDLE
                 /\ reply.payload.request_seq = HeadSlot.seq_num

\* a FREE naming a live handle of another zone has been answered
\* INVALID_HANDLE, and the handle is still live and owned by that zone
C7_Witness ==
    /\ disp.ret = "0"
    /\ disp.msg.msg_type = IDM_GPU_FREE
    /\ Len(disp.responses) = 1
    /\ disp.responses[1].kind = "error"
    /\ disp.responses[1].error_code = IDM_ERROR_INVALID_HANDLE
    /\ disp.calls = <<>>
    /\ \E e \in EntriesOf(Table, disp.msg.payload.handle) :
         /\ e.zone_id # disp.msg.src_zone
         /\ e.ptr \in DOMAIN gpu
    /\ total_handles = 1

\* table T with the entry of handle h taken out of its chain
Without(T, h) ==
    LET idx == h % 1024
        chain == Chain(T.hash_table, idx)
    IN  [T EXCEPT !.hash_table =
            SetChain(T.hash_table, idx,
                     SelectSeq(chain, LAMBDA e : e.handle # h))]

\* the request at the consumer position names a live handle of a zone other
\* than its src_zone
NamesForeign ==
    /\ Pending
    /\ NamesHandle(HeadSlot)
    /\ EntriesOf(Table, NamedHandle(HeadSlot)) # {}
    /\ NotOwned(Table, HeadSlot)

\* C8: for a request naming a live handle of another zone, what the
\* requester can observe is the same as if the handle did not exist: the
\* pointer and size handle_table_lookup returns, the pointer
\* handle_table_remove returns, the backend calls made, the response handed
\* to idm_send (kind, error code, backend error code, text), the result of
\* the send and the response ring are identical on the table as it is and
\* on the same table without the handle
C8_NoExistenceLeak ==
    NamesForeign =>
      LET h == NamedHandle(HeadSlot)
          z == HeadSlot.src_zone
          absent == Without(Table, h)
          here == handle_table_lookup(Table, z, h)
          there == handle_table_lookup(absent, z, h)
      IN  /\ EntriesOf(absent, h) = {}
          /\ here.ptr = there.ptr
          /\ here.size = there.size
          /\ handle_table_remove(Table, z, h).ptr
               = handle_table_remove(absent, z, h).ptr
          /\ \A env \in Envs :
               LET a == Run(env)
                   b == Iteration(Driver, shm, sem, absent, gpu, env)
               IN  /\ a.disp = b.disp
                   /\ a.shm = b.shm
                   /\ a.sem = b.sem
                   /\ a.conn = b.conn

\* a request naming a live handle of another zone has been refused with
\* INVALID_HANDLE; the handle is absent from the table compared against
C8_Witness ==
    /\ disp.ret = "0"
    /\ disp.msg.msg_type \in {IDM_GPU_COPY_H2D, IDM_GPU_COPY_D2H, IDM_GPU_FREE}
    /\ Len(disp.responses) = 1
    /\ disp.responses[1].kind = "error"
    /\ disp.responses[1].error_code = IDM_ERROR_INVALID_HANDLE
    /\ EntriesOf(Table, NamedHandle(disp.msg)) # {}
    /\ NotOwned(Table, disp.msg)
    /\ EntriesOf(Without(Table, NamedHandle(disp.msg)),
                 NamedHandle(disp.msg)) = {}

\* the request at the consumer position is a copy on a handle its src_zone
\* owns
CopyOnOwned ==
    /\ Pending
    /\ WellFormed(HeadSlot)
    /\ HeadSlot.msg_type \in {IDM_GPU_COPY_H2D, IDM_GPU_COPY_D2H}
    /\ \E e \in EntriesOf(Table, NamedHandle(HeadSlot)) :
         e.zone_id = HeadSlot.src_zone

CopyOffset(msg) ==
    IF msg.msg_type = IDM_GPU_COPY_H2D THEN msg.payload.dst_offset
    ELSE msg.payload.src_offset

\* C10: for a copy on an owned handle, when the true sum offset + size
\* exceeds the allocation size the response is INVALID_SIZE and no backend
\* call is made; when offset + size equals the allocation size and nothing
\* fails the response is OK
C10_Bounds ==
    CopyOnOwned =>
      \A env \in {e \in Envs : e.recvOk} :
        LET it == Run(env)
            alloc == (CHOOSE e \in EntriesOf(Table, NamedHandle(HeadSlot)) :
                         TRUE).size
            off == CopyOffset(HeadSlot)
            size == HeadSlot.payload.size
        IN  /\ TrueSumExceeds(off, size, alloc) =>
                 /\ it.disp.responses =
                      <<ResponseError(HeadSlot.src_zone, HeadSlot.seq_num,
                                      IDM_ERROR_INVALID_SIZE, 0,
                                      "Out of bounds")>>
                 /\ it.disp.calls = <<>>
            /\ (~AddCarries(off, size) /\ AddW(off, size) = alloc
                /\ env.mallocOk /\ env.res = CUDA_SUCCESS) =>
                 it.disp.responses =
                   <<ResponseOk(HeadSlot.src_zone, HeadSlot.seq_num, 0)>>

\* the requests of a handled type among the slots the driver has consumed,
\* in the order it consumed them (the ring has not wrapped)
ConsumedRequests ==
    SelectSeq([i \in 1..ValW(RxRing.consumer) |-> RxRing.entries[i - 1]],
              LAMBDA m : WellFormed(m) /\ Handled(m))

\* msg is a response to request req, addressed to the zone req names
RespondsTo(msg, req) ==
    /\ msg.msg_type \in {IDM_RESPONSE_OK, IDM_RESPONSE_ERROR}
    /\ msg.payload.request_seq = req.seq_num
    /\ msg.dst_zone = req.src_zone

C15_UnsupportedAnswered ==
    (/\ Pending
     /\ WellFormed(HeadSlot)
     /\ HeadSlot.msg_type \in {IDM_GPU_LAUNCH_KERNEL, IDM_RESPONSE_OK,
                               IDM_RESPONSE_ERROR}) =>
      \A env \in {e \in Envs : e.recvOk /\ e.buildOk} :
        LET it == Run(env)
        IN  /\ it.disp.msg = HeadSlot
            /\ it.disp.calls = <<>>
            /\ it.table = Table
            /\ it.gpu = gpu
            /\ Len(it.disp.responses) = 1
            /\ it.disp.responses[1].kind = "error"
            /\ it.disp.responses[1].error_code = IDM_ERROR_INVALID_MESSAGE
            /\ it.disp.responses[1].request_seq = HeadSlot.seq_num
            /\ it.disp.responses[1].dst_zone = HeadSlot.src_zone
            /\ it.shm[tx_key(Driver)].producer = IncW(TxRing.producer)

\* C16: for a COPY_D2H on a handle its src_zone owns, within the bounds of
\* the allocation, whose staging buffer is allocated and whose backend copy
\* succeeds, the RESPONSE_OK placed in the response ring carries
\* data_len = size and has the size bytes read after its fixed payload
\* (payload_len = sizeof(struct idm_response_ok) + size)
C16_D2HCarriesData ==
    (CopyOnOwned /\ HeadSlot.msg_type = IDM_GPU_COPY_D2H) =>
      \A env \in {e \in Envs : e.recvOk /\ e.buildOk /\ e.mallocOk
                                /\ e.res = CUDA_SUCCESS} :
        LET it == Run(env)
            alloc == (CHOOSE e \in EntriesOf(Table, NamedHandle(HeadSlot)) :
                         TRUE).size
            size == HeadSlot.payload.size
            reply == it.shm[tx_key(Driver)].entries[
                        ModSmall(TxRing.producer, 32)]
        IN  ~TrueSumExceeds(HeadSlot.payload.src_offset, size, alloc) =>
              /\ it.disp.calls =
                   <<BackendCall("cuMemcpyDtoH",
                        (CHOOSE e \in EntriesOf(Table,
                                         NamedHandle(HeadSlot)) : TRUE).ptr,
                        HeadSlot.payload.src_offset, size, CUDA_SUCCESS)>>
              /\ reply.msg_type = IDM_RESPONSE_OK
              /\ reply.payload.request_seq = HeadSlot.seq_num
              /\ reply.payload.data_len = ValW(size)
              /\ reply.payload_len = SizeofResponseOk + ValW(size)

(***************************************************************************)
(* Claims on the user zone's library (SpecCall).                           *)
(***************************************************************************)
\* msg is a response naming sequence number q
ResponseFor(msg, q) ==
    /\ msg.msg_type \in {IDM_RESPONSE_OK, IDM_RESPONSE_ERROR}
    /\ msg.payload.request_seq = q

\* C17: send_and_wait takes its result only from a received response whose
\* request_seq is the seq_num of the request it sent.  When the call is
\* over, either no response determined the result (the send failed or the
\* passes ran out: the failure result, handle_out not written), or the
\* message it returned on names the request's seq_num, a RESPONSE_OK giving
\* success and its result_handle, a RESPONSE_ERROR the translation of its
\* code; every message passed over before was not a response to this
\* request, and nothing is written to the result or the handle while the
\* loop runs
C17_OnlyMatchingResponse ==
    /\ call.pc = "recv" => call.result = "none" /\ call.handle = 0
    /\ call.pc = "done" =>
         /\ call.req_seq = call.req.seq_num
         /\ \A k \in DOMAIN call.seen :
              ~ResponseFor(call.seen[k], call.req_seq)
         /\ IF call.from = NullMsg
            THEN /\ call.result = CUDA_ERROR_INVALID_VALUE
                 /\ call.handle = 0
            ELSE /\ ResponseFor(call.from, call.req_seq)
                 /\ call.from.msg_type = IDM_RESPONSE_OK =>
                      /\ call.result = CUDA_SUCCESS
                      /\ call.handle = IF call.has_out
                                       THEN call.from.payload.result_handle
                                       ELSE 0
                 /\ call.from.msg_type = IDM_RESPONSE_ERROR =>
                      /\ call.result
                           = TranslateError(call.from.payload.error_code)
                      /\ call.handle = 0

\* the call has passed over a RESPONSE_OK naming another sequence number,
\* with another handle, and returned on the matching RESPONSE_OK received
\* after it, giving the caller the matching handle
C17_Witness ==
    /\ call.pc = "done"
    /\ call.has_out
    /\ call.result = CUDA_SUCCESS
    /\ Len(call.seen) = 1
    /\ call.seen[1].msg_type = IDM_RESPONSE_OK
    /\ call.seen[1].payload.request_seq # call.req_seq
    /\ call.seen[1].payload.result_handle # call.handle
    /\ call.handle = call.from.payload.result_handle

\* the passes of the loop ran out: the send succeeded and no response to
\* the request was received
Exhausted ==
    /\ call.pc = "done"
    /\ call.from = NullMsg
    /\ call.i >= RecvAttempts

\* C18: after a successful send the call makes at most 10 receive attempts,
\* passes over mismatching responses counted among them, and when they run
\* out without a matching response it fails with TIMEOUT: a failure, and
\* not the INVALID_VALUE that a failed send or an unknown remote error
\* gives
C18_BoundedThenTimeout ==
    /\ call.pc \in {"recv", "done"} =>
         /\ call.i <= RecvAttempts
         /\ Len(call.seen) <= call.i
    /\ Exhausted =>
         /\ call.result # CUDA_SUCCESS
         /\ call.result # CUDA_ERROR_INVALID_VALUE

\* the result the user side is to give for a matching RESPONSE_ERROR
\* carrying error_code
ExpectedResult(error_code) ==
    IF error_code = IDM_ERROR_OUT_OF_MEMORY THEN CUDA_ERROR_OUT_OF_MEMORY
    ELSE IF error_code \in {IDM_ERROR_INVALID_HANDLE,
                            IDM_ERROR_PERMISSION_DENIED}
    THEN CUDA_ERROR_INVALID_HANDLE
    ELSE CUDA_ERROR_INVALID_VALUE

\* C19: when the call returns on a matching RESPONSE_ERROR, its result is
\* OUT_OF_MEMORY for OUT_OF_MEMORY, INVALID_HANDLE for INVALID_HANDLE and
\* for PERMISSION_DENIED, and INVALID_VALUE for every other code
C19_ErrorTranslation ==
    (/\ call.pc = "done"
     /\ call.from # NullMsg
     /\ call.from.msg_type = IDM_RESPONSE_ERROR) =>
      call.result = ExpectedResult(call.from.payload.error_code)

(***************************************************************************)
(* Claims on the life cycle of the daemon (SpecLife).                      *)
(***************************************************************************)
\* run_server has returned: the handle table is empty and the transport of
\* the driver zone closed
Stopped ==
    /\ srv = "stopped"
    /\ hash_table = EmptyMap
    /\ total_handles = 0
    /\ conn[DRIVER_ZONE_ID] = NoConn

\* C20: once a signal has set running to false, the iteration in flight is
\* finished (a request it has received is handled and answered, no call of
\* the iteration running out of memory), no
\* iteration is started after it (from the next test of the loop on,
\* nothing is taken from the receive ring and requests_handled stays), and
\* run_server eventually returns, with the handle table empty and the
\* transport closed, and stays so, whether or not a message ever arrives
C20_ShutdownReached ==
    /\ (~running) ~> Stopped
    /\ [](srv # "stopped" => ServerStepEnabled)
    /\ [](srv = "stopped" => Stopped /\ ~running)
    /\ [][(~running /\ srv = "loop")
            => /\ srv' \in {"loop", "stopped"}
               /\ requests_handled' = requests_handled
               /\ shm'[USER_ZONE_ID].consumer = shm[USER_ZONE_ID].consumer]_vars
    /\ [][(~running /\ srv = "body" /\ srv' = "loop" /\ Pending
           /\ WellFormed(HeadSlot) /\ Handled(HeadSlot)
           /\ nFaults' = nFaults)
            => /\ requests_handled' = requests_handled + 1
               /\ disp'.msg = HeadSlot
               /\ disp'.sent = "0"]_vars
    /\ [][srv = "stopped" => srv' = "stopped"]_vars

\* the daemon has handled an ALLOC, a signal has arrived and run_server has
\* returned: the table is empty (the device allocation is still there) and
\* the connection closed, a request sent meanwhile left in the ring
C20_Witness ==
    /\ Stopped
    /\ ~running
    /\ requests_handled = 1
    /\ gpu # EmptyMap
    /\ shm[USER_ZONE_ID].producer = u32(2)
    /\ shm[USER_ZONE_ID].consumer = u32(1)

(***************************************************************************)
(* Claims on wakes and timeouts (SpecWake).                                *)
(***************************************************************************)
\* a step in which a call of idm_recv returns: every step that is not a
\* call of idm_send
RecvReturns == nSendCalls' = nSendCalls

\* the semaphore the driver zone waits on
DriverSem == sem[rx_sem(conn[DRIVER_ZONE_ID])]

\* C21: idm_recv with timeout 0 never blocks, and with no wake pending it
\* returns -EAGAIN with nothing changed; every idm_recv that returns
\* -EAGAIN, after the wait failed or after a wake on an empty ring,
\* delivers no message and leaves producer, consumer and all slots of both
\* rings as they were, the connection stays connected, and the call after
\* it delivers the message at the consumer position when one is there
C21_TimeoutLeavesRing ==
    /\ [](RecvWait(0, DriverSem) # "blocked")
    /\ [][(RecvReturns /\ rloc'.timeout_ms = 0 /\ DriverSem = 0)
            => /\ rret' = "-EAGAIN"
               /\ sem' = sem]_vars
    /\ [][(RecvReturns /\ rret' = "-EAGAIN")
            => /\ shm' = shm
               /\ msg_out' = msg_out
               /\ recvLog' = recvLog
               /\ conn' = conn
               /\ ~NotConnected(conn'[DRIVER_ZONE_ID])
               /\ RingEmpty(UserRing.producer, UserRing.consumer)
                    \/ DriverSem = 0]_vars
    /\ [][(RecvReturns /\ rret = "-EAGAIN" /\ DriverSem > 0
           /\ ~RingEmpty(UserRing.producer, UserRing.consumer)
           /\ nFaults' = nFaults)
            => /\ rret' = "0"
               /\ msg_out' = UserRing.entries[SlotIndex(UserRing.consumer)]
               /\ UserRing'.consumer = IncW(UserRing.consumer)]_vars

\* a blocking idm_recv has returned -EAGAIN: it was woken by a wake left
\* from an earlier run and found producer == consumer, after a message had
\* gone through the ring
C21_Witness ==
    /\ rret = "-EAGAIN"
    /\ rloc = [timeout_ms |-> -1]
    /\ Len(recvLog) = 1
    /\ UserRing.producer = u32(1)
    /\ UserRing.consumer = u32(1)

\* C22: whenever the receive ring is non-empty, a receiver that keeps
\* calling idm_recv eventually gets the message at the consumer position:
\* the n-th message published is eventually the n-th message delivered
C22_DeliveredDespiteLostWake ==
    \A n \in 1..MaxWakeSends :
        (Len(sentLog) >= n) ~> (Len(recvLog) >= n)

(***************************************************************************)
(* Claims on the order of the stores of idm_send (SpecOrder).              *)
(***************************************************************************)
\* the ring indices as numbers (they stay small in the runs checked)
Produced == SmallVal(UserRing.producer)
Consumed == SmallVal(UserRing.consumer)

\* C23: idm_send has written the whole message into slot producer mod
\* RING_SIZE when it publishes producer + 1; so in every state, every slot
\* index below producer that is not yet consumed holds the complete message
\* of the send that published it (the i-th published message at index
\* i - 1), and what the receiver reads after it observed
\* producer != consumer, and what it copies out, is that message
C23_PublishedSlotsComplete ==
    /\ [][UserRing'.producer # UserRing.producer
            => /\ UserRing.entries[SlotIndex(UserRing.producer)] = sloc.msg
               /\ UserRing'.entries = UserRing.entries
               /\ UserRing'.producer = IncW(UserRing.producer)]_vars
    /\ [](/\ Produced = Len(sentLog)
          /\ \A i \in Consumed..(Produced - 1) :
                UserRing.entries[i % IDM_RING_SIZE] = sentLog[i + 1])
    /\ [](rpc \in {"copy", "publish"}
            => /\ SmallVal(rloc.cons) < Produced
               /\ UserRing.entries[SlotIndex(rloc.cons)]
                    = sentLog[SmallVal(rloc.cons) + 1])
    /\ [](rpc = "publish" => rloc.msg = sentLog[SmallVal(rloc.cons) + 1])

\* slot 0 is being written a second time, with the header of the new
\* message and the payload of the old one, while the receiver reads the
\* published slot 1
C23_Witness ==
    /\ spc = "copy_payload"
    /\ sloc.prod = u32(IDM_RING_SIZE)
    /\ UserRing.entries[0].seq_num = sloc.msg.seq_num
    /\ UserRing.entries[0].payload # sloc.msg.payload
    /\ rpc = "copy"
    /\ rloc.cons = u32(1)

(***************************************************************************)
(* Claims on the size of a message against the slot (SpecRing).            *)
(***************************************************************************)
\* a message with a valid header and payload_len = len
OfLength(len) == [HandBuilt("too_big_for_slot") EXCEPT !.payload_len = len]

\* the payload lengths tried: the largest that fits a slot, one more, two
\* pages, the largest valid payload, and one more
PayloadLengths ==
    {SizeofRingEntry - SizeofHeader, SizeofRingEntry - SizeofHeader + 1,
     2 * SizeofRingEntry, IDM_MAX_PAYLOAD_SIZE, IDM_MAX_PAYLOAD_SIZE + 1}

\* C24: in every state of the ring, idm_send of a message whose header
\* size plus payload_len exceeds sizeof(struct idm_ring_entry) returns
\* -EINVAL and leaves rings and semaphores as they are, while a message
\* that just fits is refused only by a full ring; a call that returns
\* -EINVAL has stored nothing; and every message idm_send has published,
\* and every slot of the ring, fits in one slot
C24_OversizeRejected ==
    /\ [](\A len \in PayloadLengths :
            LET r == idm_send(conn[USER_ZONE_ID], shm, sem, OfLength(len))
            IN  IF SizeofHeader + len > SizeofRingEntry
                THEN r = [ret |-> "-EINVAL", shm |-> shm, sem |-> sem]
                ELSE /\ r.ret = IF Unconsumed = IDM_RING_SIZE
                                THEN "-ENOSPC" ELSE "0"
                     /\ r.ret = "0" =>
                          r.shm[USER_ZONE_ID].entries[
                              SlotIndex(UserRing.producer)] = OfLength(len))
    /\ [][(sret' = "-EINVAL" /\ sret' # sret)
            => /\ shm' = shm
               /\ sem' = sem
               /\ spc' = "idle"
               /\ sentLog' = sentLog]_vars
    /\ [](\A k \in 0..(IDM_RING_SIZE - 1) :
            idm_message_size(UserRing.entries[k]) <= SizeofRingEntry)
    /\ [](\A i \in 1..Len(sentLog) :
            idm_message_size(sentLog[i]) <= SizeofRingEntry)
    /\ [](spc # "idle" => idm_message_size(sloc.msg) <= SizeofRingEntry)

\* a call of idm_send has returned -EINVAL on a ring that holds published
\* messages, among them one in a reused slot
C24_Witness ==
    /\ sret = "-EINVAL"
    /\ spc = "idle"
    /\ Len(sentLog) > IDM_RING_SIZE
    /\ Unconsumed >= 1

(***************************************************************************)
(* Claims on the entries of the handle table (SpecTable).                  *)
(***************************************************************************)
\* the number of entries of the table, chain by chain
RECURSIVE ChainLengths(_, _)
ChainLengths(T, idxs) ==
    IF idxs = {} THEN 0
    ELSE LET idx == CHOOSE x \in idxs : TRUE
         IN  Len(T.hash_table[idx]) + ChainLengths(T, idxs \ {idx})

\* C25: no live entry has handle 0; no two live entries have the same
\* handle (there are as many handles as entries); an entry that is live
\* before and after a call has the same owner zone, pointer and size, which
\* are those given to the insert that returned its handle;
\* handle_table_insert returns 0 exactly for a null pointer or a failed
\* allocation, and then the table is unchanged, and otherwise returns a
\* handle that was not live and is now, with the entry it was given
C25_EntriesUniqueImmutable ==
    /\ [](\A e \in TableEntries(Table) :
            /\ e.handle # 0
            /\ e.handle \in DOMAIN issued
            /\ issued[e.handle] = [zone_id |-> e.zone_id, ptr |-> e.ptr,
                                   size |-> e.size])
    /\ [](Cardinality({e.handle : e \in TableEntries(Table)})
            = ChainLengths(Table, DOMAIN hash_table))
    /\ [][\A e \in TableEntries(Table) :
            \A f \in TableEntries(Table') :
                f.handle = e.handle => f = e]_vars
    /\ [](\A zone \in TableZones, ptr \in TablePtrs, size \in TableSizes,
             mallocOk \in BOOLEAN :
            LET r == handle_table_insert(Table, zone, ptr, size, mallocOk)
            IN  /\ r.ret = 0 <=> (ptr = NULL \/ ~mallocOk)
                /\ r.ret = 0 => r.table = Table
                /\ r.ret # 0 =>
                     /\ EntriesOf(Table, r.ret) = {}
                     /\ EntriesOf(r.table, r.ret)
                          = {[handle |-> r.ret, zone_id |-> zone,
                              ptr |-> ptr, size |-> size]}
                     /\ TableEntries(r.table)
                          = TableEntries(Table)
                              \cup EntriesOf(r.table, r.ret))
    /\ [][(tcall'.op = "insert" /\ tcall'.handle = 0)
            => /\ hash_table' = hash_table
               /\ next_handle' = next_handle
               /\ total_handles' = total_handles
               /\ total_memory' = total_memory]_vars

\* an insert of a non-null pointer has failed on its allocation and
\* returned 0, the table holding two entries
C25_Witness ==
    /\ tcall.op = "insert"
    /\ tcall.handle = 0
    /\ tcall.ptr # NULL
    /\ total_handles = 2
    /\ Cardinality(TableEntries(Table)) = 2

(***************************************************************************)
(* Claims on ALLOC and FREE (Spec).                                        *)
(***************************************************************************)
\* the request at the consumer position is an ALLOC
AllocPending ==
    /\ Pending
    /\ WellFormed(HeadSlot)
    /\ HeadSlot.msg_type = IDM_GPU_ALLOC

\* the message iteration it has placed in the response ring
Reply(it) == it.shm[tx_key(Driver)].entries[ModSmall(TxRing.producer, 32)]

\* iteration it has sent a response to the request at the consumer position
Replied(it) ==
    /\ it.disp.sent = "0"
    /\ it.shm[tx_key(Driver)].producer = IncW(TxRing.producer)
    /\ RespondsTo(Reply(it), HeadSlot)

\* first outcome: a device allocation made in the iteration is registered
\* in the table for the request's src_zone under a new nonzero handle, and
\* the RESPONSE_OK sent carries that handle as result_handle
AllocRegistered(it) ==
    /\ Replied(it)
    /\ Reply(it).msg_type = IDM_RESPONSE_OK
    /\ Reply(it).payload.result_handle # 0
    /\ \E e \in TableEntries(it.table) \ TableEntries(Table) :
         /\ e.handle = Reply(it).payload.result_handle
         /\ e.zone_id = HeadSlot.src_zone
         /\ e.size = HeadSlot.payload.size
         /\ e.ptr \in DOMAIN it.gpu \ DOMAIN gpu
         /\ TableEntries(it.table) = TableEntries(Table) \cup {e}
         /\ DOMAIN it.gpu = DOMAIN gpu \cup {e.ptr}

\* second outcome: a RESPONSE_ERROR was sent, the table is as before and
\* no device allocation made in the iteration is left
AllocRefused(it) ==
    /\ Replied(it)
    /\ Reply(it).msg_type = IDM_RESPONSE_ERROR
    /\ it.table = Table
    /\ it.gpu = gpu

\* C26: after the iteration that handles an ALLOC request, whatever
\* fails in it, exactly one of the two outcomes holds: the allocation is
\* registered and its handle sent, or an error was sent and nothing is
\* left allocated
C26_AllocOutcome ==
    AllocPending =>
      \A env \in {e \in Envs : e.recvOk} :
        AllocRegistered(Run(env)) # AllocRefused(Run(env))

\* the request at the consumer position is a FREE
FreePending ==
    /\ Pending
    /\ WellFormed(HeadSlot)
    /\ HeadSlot.msg_type = IDM_GPU_FREE

\* C27: the iteration that handles a FREE calls the backend free only on
\* the pointer handle_table_remove has just taken out of the table for the
\* request's src_zone, once, and the handle is out of the table whatever
\* cuMemFree returns; a FREE of a handle that is not in the table, and so
\* the same FREE handled again after it, by the same or another zone, gets
\* INVALID_HANDLE with no backend call; after an iteration that called
\* cuMemFree for a FREE, no entry of the table holds the pointer it freed
C27_FreeOnceAfterRemove ==
    /\ FreePending =>
         \A env \in {e \in Envs : e.recvOk} :
           LET it == Run(env)
               h == HeadSlot.payload.handle
               rem == handle_table_remove(Table, HeadSlot.src_zone, h)
           IN  /\ rem.ptr = NULL =>
                    /\ it.disp.calls = <<>>
                    /\ it.disp.responses[1].kind = "error"
                    /\ it.disp.responses[1].error_code
                         = IDM_ERROR_INVALID_HANDLE
                    /\ it.table = Table
               /\ rem.ptr # NULL =>
                    /\ it.disp.calls
                         = <<BackendCall("cuMemFree", rem.ptr, u64(0),
                                         u64(0), env.res)>>
                    /\ \E e \in EntriesOf(Table, h) :
                         e.ptr = rem.ptr /\ e.zone_id = HeadSlot.src_zone
                    /\ rem.ptr \in DOMAIN gpu
                    /\ EntriesOf(it.table, h) = {}
                    /\ TableEntries(it.table)
                         = TableEntries(Table) \ EntriesOf(Table, h)
               /\ \A z \in SrcZones, env2 \in Envs :
                    LET again == Dispatch([HeadSlot EXCEPT !.src_zone = z],
                                          it.table, it.gpu, env2)
                    IN  (rem.ptr # NULL \/ z = HeadSlot.src_zone) =>
                          /\ again.calls = <<>>
                          /\ again.resp.kind = "error"
                          /\ again.resp.error_code
                               = IDM_ERROR_INVALID_HANDLE
                          /\ again.table = it.table
                          /\ again.gpu = it.gpu
    /\ \A i \in DOMAIN disp.calls :
         disp.calls[i].fn = "cuMemFree" /\ disp.msg.msg_type = IDM_GPU_FREE
           => EntriesAt(Table, disp.calls[i].ptr) = {}

\* a FREE of a live handle by its owner has been handled: one cuMemFree was
\* called, the table is empty and the allocation gone
C27_Witness ==
    /\ disp.ret = "0"
    /\ disp.msg.msg_type = IDM_GPU_FREE
    /\ Len(disp.calls) = 1
    /\ disp.calls[1].fn = "cuMemFree"
    /\ disp.calls[1].res = CUDA_SUCCESS
    /\ disp.responses[1].kind = "ok"
    /\ TableEntries(Table) = {}
    /\ gpu = EmptyMap

\* C28: when the backend free called for a FREE request fails, the handle
\* is still live after the iteration: its entry is in the table, its owner
\* can look it up, total_handles and total_memory still count it, and the
\* requester is sent RESPONSE_ERROR with CUDA_ERROR and the backend's code
C28_HandleKeptOnFailedFree ==
    (FreePending /\ ~NotOwned(Table, HeadSlot)) =>
      \A env \in {e \in Envs : e.recvOk /\ e.res # CUDA_SUCCESS} :
        LET it == Run(env)
            h == HeadSlot.payload.handle
        IN  /\ it.disp.calls[1].fn = "cuMemFree"
            /\ it.disp.calls[1].res = env.res
            /\ it.disp.responses
                 = <<ResponseError(HeadSlot.src_zone, HeadSlot.seq_num,
                                   IDM_ERROR_CUDA_ERROR, env.res,
                                   "cuMemFree failed")>>
            /\ it.gpu = gpu
            /\ EntriesOf(it.table, h) = EntriesOf(Table, h)
            /\ handle_table_lookup(it.table, HeadSlot.src_zone, h).ptr
                 # NULL
            /\ it.table.total_handles = total_handles
            /\ it.table.total_memory = total_memory

(***************************************************************************)
(* Claims on the shape of the payload (Spec).                              *)
(***************************************************************************)
\* requests with a valid header whose payload_len does not fit their type:
\* an ALLOC and a FREE shorter than their structure, a COPY_H2D with no
\* data bytes and one with fewer data bytes than its size field says.  The
\* fields of the payload record are the bytes the handler finds where it
\* reads them
Misshaped(cn) ==
    {Request(cn, USER_ZONE_ID, IDM_GPU_ALLOC,
             [size |-> AllocSize, flags |-> 0], SizeofAlloc - 8),
     Request(cn, USER_ZONE_ID, IDM_GPU_FREE, [handle |-> FirstHandle], 0),
     Request(cn, USER_ZONE_ID, IDM_GPU_COPY_H2D,
             [dst_handle |-> FirstHandle, dst_offset |-> u64(0),
              size |-> u64(256)], SizeofCopyH2D),
     Request(cn, USER_ZONE_ID, IDM_GPU_COPY_H2D,
             [dst_handle |-> FirstHandle, dst_offset |-> u64(0),
              size |-> u64(256)], SizeofCopyH2D + 255)}

\* the user zone sends msg on the empty ring and the driver zone runs the
\* iteration that receives it
SendThenRun(msg, env) ==
    LET s == idm_send(conn[USER_ZONE_ID], shm, sem, msg)
    IN  Iteration(Driver, s.shm, s.sem, Table, gpu, env)

\* C29: a request whose payload_len is smaller than the structure of its
\* type, or a COPY_H2D whose payload_len is not the structure plus its
\* size field, is received and answered with RESPONSE_ERROR /
\* INVALID_MESSAGE, and the iteration makes no backend call and leaves the
\* handle table and the allocations as they were
C29_ShapeChecked ==
    (RxRing.producer = RxRing.consumer /\ sem[rx_sem(Driver)] = 0) =>
      \A msg \in Misshaped(conn[USER_ZONE_ID]) :
        \A env \in {e \in Envs : e.recvOk} :
          LET it == SendThenRun(msg, env)
          IN  /\ it.disp.msg = msg
              /\ Len(it.disp.responses) = 1
              /\ it.disp.responses[1].kind = "error"
              /\ it.disp.responses[1].error_code = IDM_ERROR_INVALID_MESSAGE
              /\ it.disp.calls = <<>>
              /\ it.table = Table
              /\ it.gpu = gpu

(***************************************************************************)
(* Claims on COPY_D2D and MEMSET (Spec).                                   *)
(***************************************************************************)
\* sizeof(struct idm_gpu_copy_d2d) and sizeof(struct idm_gpu_memset), both
\* packed
SizeofCopyD2D == 40
SizeofMemset == 28

\* the COPY_D2D request cuMemcpyDtoD of libvgpu builds (offsets 0), here
\* of 256 bytes from the first handle to itself, and a MEMSET of 256
\* bytes at the start of the first handle
DeviceRequests(cn) ==
    {Request(cn, USER_ZONE_ID, IDM_GPU_COPY_D2D,
             [dst_handle |-> FirstHandle, src_handle |-> FirstHandle,
              dst_offset |-> u64(0), src_offset |-> u64(0),
              size |-> u64(256)], SizeofCopyD2D),
     Request(cn, USER_ZONE_ID, IDM_GPU_MEMSET,
             [handle |-> FirstHandle, offset |-> u64(0), value |-> 0,
              size |-> u64(256)], SizeofMemset)}

\* C30: the iteration that receives a COPY_D2D or a MEMSET request sends
\* exactly one response to the sender; when the sender owns the handles
\* and the ranges are within them it makes one backend call, and the
\* response is RESPONSE_OK if that call succeeds; when the sender does not
\* own a handle it makes no backend call and the response is an error
C30_DeviceCopyAndMemsetServed ==
    (RxRing.producer = RxRing.consumer /\ sem[rx_sem(Driver)] = 0) =>
      \A msg \in DeviceRequests(conn[USER_ZONE_ID]) :
        \A env \in {e \in Envs : e.recvOk /\ e.buildOk} :
          LET it == SendThenRun(msg, env)
              owned == handle_table_lookup(Table, USER_ZONE_ID,
                                           FirstHandle) # NULL
          IN  /\ it.disp.msg = msg
              /\ Len(it.disp.responses) = 1
              /\ it.disp.responses[1].dst_zone = USER_ZONE_ID
              /\ it.disp.responses[1].request_seq = msg.seq_num
              /\ IF owned
                 THEN /\ Len(it.disp.calls) = 1
                      /\ env.res = CUDA_SUCCESS
                           => it.disp.responses[1].kind = "ok"
                 ELSE /\ it.disp.calls = <<>>
                      /\ it.disp.responses[1].kind = "error"

(***************************************************************************)
(* Claims on the release of the allocations at shutdown (SpecLife).        *)
(***************************************************************************)
\* C31: when run_server has returned, no device allocation made by an
\* ALLOC is left with the backing driver: every allocation that was not
\* freed through a FREE has been freed with cuMemFree at shutdown
C31_AllocationsReleasedAtStop ==
    srv = "stopped" => gpu = EmptyMap

(***************************************************************************)
(* Claims on attaching to the rings (SpecConn).                            *)
(***************************************************************************)
\* the step is a call of fn by the process of zone z
Calls(z, fn) ==
    /\ nApiCalls' = nApiCalls + 1
    /\ api'.zone = z
    /\ api'.fn = fn

\* C32: after idm_init has succeeded as server both rings are empty, with
\* producer = consumer = 0; a call of idm_init as client changes no index
\* and no slot of either ring (and no semaphore); when the client is
\* attached and a message of the server is pending with its wake, the
\* client's idm_recv returns the oldest message sent and not yet received,
\* whether it was sent before or after the client attached; and a step
\* other than the server's idm_init changes the producer index or a slot
\* of a ring only by an idm_send of the zone whose transmit ring it is, and
\* the consumer index only by an idm_recv of the zone whose receive ring
\* it is
C32_AttachKeepsRings ==
    /\ [](api.fn = "idm_init" /\ api.zone = DRIVER_ZONE_ID /\ api.ret = "0"
            => \A k \in Zones : /\ shm[k].producer = u32(0)
                                /\ shm[k].consumer = u32(0))
    /\ [][Calls(USER_ZONE_ID, "idm_init") => shm' = shm /\ sem' = sem]_vars
    /\ []((/\ conn[USER_ZONE_ID] # NoConn
           /\ PendingFor(idm_init(USER_ZONE_ID, DRIVER_ZONE_ID, FALSE)) > 0
           /\ sem[USER_ZONE_ID] > 0)
            => LET r == idm_recv(conn[USER_ZONE_ID], shm, sem, TRUE)
               IN  /\ r.ret = "0"
                   /\ Len(sentLog) > Len(recvLog)
                   /\ r.msg = sentLog[Len(recvLog) + 1])
    /\ [][~Calls(DRIVER_ZONE_ID, "idm_init")
            => \A k \in Zones :
                 /\ (\/ shm'[k].producer # shm[k].producer
                     \/ shm'[k].entries # shm[k].entries)
                      => /\ Calls(k, "idm_send")
                         /\ tx_key(conn[k]) = k
                 /\ shm'[k].consumer # shm[k].consumer
                      => /\ Calls(PeerOf(k), "idm_recv")
                         /\ rx_key(conn[PeerOf(k)]) = k]_vars

\* the server attached and sent a message, then the client attached,
\* finding it in its receive ring, and its idm_recv returned that message
C32_Witness ==
    /\ nApiCalls = 4
    /\ api.zone = USER_ZONE_ID /\ api.fn = "idm_recv" /\ api.ret = "0"
    /\ pendingAtInit[USER_ZONE_ID] = 1
    /\ recvLog = sentLog
    /\ api.msg = sentLog[1]
    /\ api.msg.src_zone = DRIVER_ZONE_ID

(***************************************************************************)
(* Claims on the life cycle of a connection (SpecConn).                    *)
(***************************************************************************)
\* the step leaves the rings and the semaphores as they were
RingsUntouched == shm' = shm /\ sem' = sem

\* C40: while a process has no connection (before its idm_init and after
\* its idm_cleanup) its idm_send and idm_recv return -ENOTCONN and its
\* idm_build_message returns NULL, and none of them changes a ring, a
\* semaphore or a connection; idm_init called while the process has a
\* connection returns -EALREADY and changes neither the connection (zones,
\* role, next_seq) nor the rings; idm_cleanup leaves the process without a
\* connection; and idm_init called without a connection, when no
\* allocation, segment or semaphore fails, returns 0 and leaves a
\* connection whose next_seq is 1, also after an idm_cleanup
C40_ConnectionLifecycle ==
    /\ [][\A z \in Zones :
            conn[z] = NoConn =>
              /\ Calls(z, "idm_send")
                   => api'.ret = "-ENOTCONN" /\ RingsUntouched /\ conn' = conn
              /\ Calls(z, "idm_recv")
                   => /\ api'.ret = "-ENOTCONN" /\ api'.msg = NullMsg
                      /\ RingsUntouched /\ conn' = conn
              /\ Calls(z, "idm_build_message")
                   => /\ api'.ret = "NULL" /\ api'.msg = NullMsg
                      /\ RingsUntouched /\ conn' = conn
              /\ (Calls(z, "idm_init") /\ nFaults' = nFaults)
                   => /\ api'.ret = "0"
                      /\ conn'[z] = [local_zone_id |-> z,
                                     remote_zone_id |-> PeerOf(z),
                                     is_server |-> (z = DRIVER_ZONE_ID),
                                     next_seq |-> 1, connected |-> TRUE]]_vars
    /\ [][\A z \in Zones :
            conn[z] # NoConn =>
              /\ Calls(z, "idm_init")
                   => /\ api'.ret = "-EALREADY"
                      /\ RingsUntouched /\ conn' = conn
              /\ Calls(z, "idm_cleanup")
                   => conn'[z] = NoConn /\ RingsUntouched]_vars

\* the user zone's process attached, sent a message, detached and has
\* attached again: its idm_init returned 0, next_seq is 1 again and the
\* message is still in the ring
C40_Witness ==
    /\ nApiCalls = 4
    /\ api.zone = USER_ZONE_ID /\ api.fn = "idm_init" /\ api.ret = "0"
    /\ conn[USER_ZONE_ID].next_seq = 1
    /\ conn[DRIVER_ZONE_ID] = NoConn
    /\ shm[USER_ZONE_ID].producer = u32(1)
    /\ shm[USER_ZONE_ID].entries[0].seq_num = 2
    /\ shm[USER_ZONE_ID].entries[0].src_zone = USER_ZONE_ID

(***************************************************************************)
(* Claims on the wakes against the messages of a ring (SpecRing).          *)
(***************************************************************************)
\* C33: from empty rings and semaphores at 0, in every interleaving of
\* the statements of idm_send and idm_recv, the wakes pending for the
\* receiver are never more than the messages in the ring (producer -
\* consumer), and when neither call is in progress they are as many,
\* whichever way idm_recv returned
C33_WakesMatchMessages ==
    /\ DriverSem <= ValW(UserRingDiff)
    /\ (spc = "idle" /\ rpc = "idle") => DriverSem = ValW(UserRingDiff)

(***************************************************************************)
(* Claims on the slot the sender writes (SpecOrder).                       *)
(***************************************************************************)
\* the slots that hold a message published and not yet consumed: those of
\* the indices consumer .. producer - 1
UnconsumedSlots ==
    {SlotIndex(AddW(UserRing.consumer, u32(i))) :
        i \in 0..(ValW(UserRingDiff) - 1)}

\* idm_send is between its ring-full test and its store of producer
SenderInSlot == spc \in {"copy", "copy_payload", "publish"}

\* idm_recv is between its load of consumer and its store of consumer + 1
ReceiverInSlot == rpc \in {"copy", "publish"}

\* C34: while idm_send writes its slot, producer mod RING_SIZE, that slot
\* is none of the slots consumer .. producer - 1, which hold the messages
\* not yet consumed, the one idm_recv is copying among them; each of those
\* slots holds the message published into it; and idm_recv stores
\* consumer + 1 only with the complete message of the slot copied
C34_SenderAvoidsUnconsumed ==
    /\ SenderInSlot =>
         /\ sloc.prod = UserRing.producer
         /\ SlotIndex(sloc.prod) \notin UnconsumedSlots
    /\ ReceiverInSlot =>
         /\ rloc.cons = UserRing.consumer
         /\ SlotIndex(rloc.cons) \in UnconsumedSlots
         /\ SenderInSlot => SlotIndex(sloc.prod) # SlotIndex(rloc.cons)
    /\ \A i \in 1..Unconsumed :
         UserRing.entries[SlotIndex(AddW(UserRing.consumer, u32(i - 1)))]
           = sentLog[Len(recvLog) + i]
    /\ rpc = "publish" => rloc.msg = sentLog[Len(recvLog) + 1]

\* idm_send is half way through writing slot 0 for the second time while
\* the other 31 slots hold unconsumed messages and idm_recv is copying the
\* oldest of them, out of slot 1
C34_Witness ==
    /\ spc = "copy_payload"
    /\ rpc = "copy"
    /\ sloc.prod = u32(IDM_RING_SIZE)
    /\ rloc.cons = u32(1)
    /\ Cardinality(UnconsumedSlots) = IDM_RING_SIZE - 1

(***************************************************************************)
(* Claims on the wrap of the indices (SpecWrap).                           *)
(***************************************************************************)
\* the slot of the n-th message published since the indices stood at
\* 2^32 - 3: the slot sequence 29, 30, 31, 0, 1, ...
SlotAfterStart(n) == (IDM_RING_SIZE - 3 + n - 1) % IDM_RING_SIZE

\* C35: with producer and consumer passing 2^32 - 1 and wrapping to 0,
\* producer - consumer modulo 2^32 stays the number of unconsumed
\* messages, between 0 and RING_SIZE; the empty test holds exactly when
\* there is none and the full test exactly when there are RING_SIZE; the
\* slots written and read continue the sequence 29, 30, 31, 0, 1, ...
\* without a gap; and the messages delivered are, in order, a prefix of
\* the messages published
C35_WrapKeepsSequence ==
    /\ IsSmall(UserRingDiff)
    /\ SmallVal(UserRingDiff) = Unconsumed
    /\ Unconsumed \in 0..IDM_RING_SIZE
    /\ RingEmpty(UserRing.producer, UserRing.consumer) <=> Unconsumed = 0
    /\ RingFull(UserRing.producer, UserRing.consumer)
           <=> Unconsumed = IDM_RING_SIZE
    /\ spc \in {"copy", "publish"}
           => SlotIndex(sloc.prod) = SlotAfterStart(Len(sentLog) + 1)
    /\ rpc \in {"copy", "publish"}
           => SlotIndex(rloc.cons) = SlotAfterStart(Len(recvLog) + 1)
    /\ \A i \in 1..Unconsumed :
         UserRing.entries[SlotAfterStart(Len(recvLog) + i)]
           = sentLog[Len(recvLog) + i]
    /\ Len(recvLog) <= Len(sentLog)
    /\ \A i \in 1..Len(recvLog) : recvLog[i] = sentLog[i]

\* the ring is full with the producer index wrapped (2^32 - 3 + 33 = 30
\* modulo 2^32) and the consumer index not yet (2^32 - 2), one message
\* delivered
C35_Witness ==
    /\ UserRing.producer = u32(IDM_RING_SIZE - 2)
    /\ UserRing.consumer = <<LimbBase - 2, LimbBase - 1>>
    /\ Unconsumed = IDM_RING_SIZE
    /\ Len(recvLog) = 1
    /\ sret = "-ENOSPC"

(***************************************************************************)
(* Claims on the bytes idm_recv copies out of a slot (Spec).               *)
(***************************************************************************)
\* headers that pass idm_message_valid and announce more bytes than a slot
\* holds: one byte too many, and the largest payload_len accepted
Oversized(cn) ==
    {Request(cn, USER_ZONE_ID, IDM_GPU_SYNC, [flags |-> 0], len) :
        len \in {SizeofRingEntry - SizeofHeader + 1, IDM_MAX_PAYLOAD_SIZE}}

\* the user zone stores msg into the next slot of the empty ring it
\* transmits on, publishes it and posts the semaphore, without idm_send,
\* and the driver zone runs the iteration that finds it
RawWriteThenRun(msg, env) ==
    LET cn == conn[USER_ZONE_ID]
        ring == shm[tx_key(cn)]
        sh == [shm EXCEPT ![tx_key(cn)] =
                  RingPublish(RingWrite(ring, ring.producer, msg),
                              ring.producer)]
        se == [sem EXCEPT ![tx_sem(cn)] = @ + 1]
    IN  Iteration(Driver, sh, se, Table, gpu, env)

\* C36: whatever header the peer has left in the slot at the consumer
\* position, idm_recv copies at most the bytes of one slot out of the
\* ring: a message it delivers has header size + payload_len no larger
\* than a slot
C36_RecvCopiesWithinSlot ==
    (RxRing.producer = RxRing.consumer /\ sem[rx_sem(Driver)] = 0) =>
      \A msg \in Oversized(conn[USER_ZONE_ID]) :
        \A env \in Envs :
          LET it == RawWriteThenRun(msg, env)
          IN  it.disp.ret = "0"
                => idm_message_size(it.disp.msg) <= SizeofRingEntry

(***************************************************************************)
(* Claims on concurrent senders (SpecThreads).                             *)
(***************************************************************************)
\* the calls of idm_send that have returned 0
Succeeded == {i \in DOMAIN built : built[i].ret = "0"}

\* C37: with two threads in idm_send on one connection, once both have
\* returned, every call that returned 0 has its message in the slot it
\* wrote, no two of them wrote the same slot, producer has advanced by
\* the number of those calls, and as many wakes are pending as messages
\* are published
C37_ConcurrentSendsKept ==
    (\A t \in Threads : bpc[t] = "idle") =>
        /\ \A i \in Succeeded :
             /\ UserRing.entries[SlotIndex(built[i].prod)] = built[i].msg
             /\ \A j \in Succeeded : i # j => built[i].prod # built[j].prod
        /\ ValW(UserRing.producer) = Cardinality(Succeeded)
        /\ sem[DRIVER_ZONE_ID] = ValW(UserRing.producer)

(***************************************************************************)
(* Claims on the sequence numbers of the requests (SpecSeq).               *)
(***************************************************************************)
\* the daemon produced the response resp for the request published at
\* ring index pos
AnswerTo(resp, pos) ==
    \E k \in DOMAIN recvLog :
        /\ recvLog[k].pos = pos
        /\ recvLog[k].resp_seq = resp.seq_num

\* C38: no two requests the user zone's library has sent carry the same
\* seq_num, the COPY_H2D requests it fills in by hand included; and a
\* call that returned CUDA_SUCCESS took it from a RESPONSE_OK the daemon
\* sent for the request of that very call, never from the response to an
\* earlier request whose call had timed out
C38_RequestSeqsDistinct ==
    /\ \A i, j \in DOMAIN sentLog :
         i # j => sentLog[i].msg.seq_num # sentLog[j].msg.seq_num
    /\ \A c \in DOMAIN built :
         built[c].result = CUDA_SUCCESS
           => /\ built[c].from.msg_type = IDM_RESPONSE_OK
              /\ AnswerTo(built[c].from, built[c].pos)

(***************************************************************************)
(* Claims on the responses to pipelined requests (SpecPipe).               *)
(***************************************************************************)
\* the client has drained its receive ring
Drained ==
    /\ shm[DRIVER_ZONE_ID].producer = shm[DRIVER_ZONE_ID].consumer
    /\ sem[USER_ZONE_ID] = 0

\* C39: when the client has drained its receive ring it has received one
\* response for every request the daemon has processed, and every handle
\* an ALLOC has registered has been reported to it in a RESPONSE_OK,
\* however many requests it sent before it drained
C39_EveryResponseArrives ==
    Drained =>
        /\ Len(built) = requests_handled
        /\ \A h \in 1..(next_handle - 1) :
             \E k \in DOMAIN built :
                 /\ built[k].msg_type = IDM_RESPONSE_OK
                 /\ built[k].payload.result_handle = h


====
